---- MODULE Spec2Model ----
(***************************************************************************)
(* A model of dl-yt-playlist: a run of `downloadYouTubePlaylist`           *)
(* (src/src/main.ts) from the check of its commands to its result, one     *)
(* step for each of its awaits, with the `metadata.json` reconciliation of *)
(* its STEP 6; and the steps of the later `downloadYouTubePlaylist`        *)
(* (src/unnamed/part_021) that fetch the playlist pages, fetch the video   *)
(* details in waves, and run the downloads in waves, each with its         *)
(* thumbnail cascade (src/unnamed/part_017), and the run of part_021 as a  *)
(* whole, from the check of its dependencies to its result.                *)
(*                                                                         *)
(* The persistent state is the content of `<directory>/metadata.json`.    *)
(* Every other variable holds the value a local of the most recent run of *)
(* `downloadYouTubePlaylist` had when the run returned, or has now.        *)
(***************************************************************************)
EXTENDS Integers, Sequences, FiniteSets, TLC

VARIABLES
  metadataJson,          \* content of metadata.json (<<>> = missing file)
  pc,                    \* "idle": no run; else the await the run is at,
                         \* or how the run ended
  freshMetadata,         \* main.ts:922   videos returned by the downloads
  potentialOnDisk,       \* main.ts:1131  the potential videos, with the
                         \* extensions of their files found on disk
  unavailableVideos,     \* main.ts:473
  existingMetadata,      \* main.ts:1079  what the run read from the file
  totalMetadata,         \* main.ts:1160
  steps,                 \* existingMetadataObj / metadataItemsUpdated after
                         \* each iteration of the forEach of main.ts:1169
  existingMetadataObj,   \* main.ts:1095  the object after the forEach
  metadataItemsUpdated,  \* main.ts:1088
  shouldWriteMetadata,   \* main.ts:1083
  written,               \* TRUE iff Bun.write of main.ts:1217 succeeded
  thumbnailsToDownload,  \* main.ts:993
  failures,              \* main.ts:250, part_021:63  the failures of the run
  youTubeFetchCount,     \* part_021:140  youTubeFetchCount.count
  playlistItemsCall,     \* part_021:813  the arguments of the call of
                         \* _genPlaylistItems whose request is in flight
  playlistItemsApi,      \* the requests the provider of the playlist pages
                         \* received and its answers, in order
  playlistItemListResponses,  \* part_021:147
  options,               \* part_021:38   the options of the run
  downloadCount,         \* part_021:498
  thumbnailCall,         \* part_017:768  the arguments of the call of
                         \* _downloadThumbnailFile whose request is in flight
  thumbnailFetches,      \* the requests the provider of the thumbnails
                         \* received, its answers and the writes of the
                         \* thumbnail file, in order
  thumbnailFile,         \* <thumbnailDirectory>/<id>.jpg: <<>> while there
                         \* is no file, else <<its content>>
  fetchIdChunks,         \* part_021:321
  videosListCalls,       \* the promise of each call of yt.videos.list
  videosListApi,         \* the requests the provider of the video details
                         \* received and its answers, in order
  videoListResponses,    \* part_021:331  the accumulator, then the result
  units,                 \* part_021:549  downloadPromiseFxns: the state of
                         \* each unit of work
  wave,                  \* the number of batches of promiseFxnBatches
                         \* (part_021:717) that have been started
  completions,           \* the units in the order their promises settled
  videosDownloaded,      \* part_021:723  the accumulator, then the result
  partialVideosMetadata, \* part_021:172
  partialVideosWithDurationMetadata,  \* part_021:414
  idsToDownload,         \* part_021:449
  ytDlpPath,             \* part_021:80
  ffmpegPath             \* part_021:81

playlistVars == <<playlistItemsCall, playlistItemsApi,
                  playlistItemListResponses>>
thumbnailVars == <<thumbnailCall, thumbnailFetches, thumbnailFile>>
detailVars == <<fetchIdChunks, videosListCalls, videosListApi,
                videoListResponses>>
downloadVars == <<units, wave, completions, videosDownloaded>>
runVars == <<partialVideosMetadata, partialVideosWithDurationMetadata,
             idsToDownload, ytDlpPath, ffmpegPath>>

\* The locals of STEPs 2 to 4 of part_021.
stepVars == <<youTubeFetchCount, options, downloadCount, playlistVars,
              thumbnailVars, detailVars, downloadVars, runVars>>

\* The file and the locals of STEP 6 of main.ts.
reconcileVars == <<metadataJson, freshMetadata, potentialOnDisk,
                   unavailableVideos, existingMetadata, totalMetadata, steps,
                   existingMetadataObj, metadataItemsUpdated,
                   shouldWriteMetadata, written, thumbnailsToDownload>>

\* What each step of part_021 leaves alone, but for pc and failures.
notPlaylistVars == <<reconcileVars, options, downloadCount, thumbnailVars,
                     detailVars, downloadVars, runVars>>
notThumbnailVars == <<reconcileVars, youTubeFetchCount, options, playlistVars,
                      detailVars, downloadVars, runVars>>
notDetailVars == <<reconcileVars, downloadCount, playlistVars, thumbnailVars,
                   downloadVars, runVars>>
notDownloadVars == <<reconcileVars, youTubeFetchCount, playlistVars,
                     thumbnailVars, detailVars, runVars>>

vars == <<metadataJson, pc, freshMetadata, potentialOnDisk, unavailableVideos,
          existingMetadata, totalMetadata, steps, existingMetadataObj,
          metadataItemsUpdated, shouldWriteMetadata, written,
          thumbnailsToDownload, failures, stepVars>>

(***************************************************************************)
(* Bounds and the universe of inputs.                                      *)
(***************************************************************************)
\* The largest number of playlist items one run receives from the API.
MaxItems == 2

\* JavaScript `null`.
null == "null"

Ids == {"a", "b"}
\* snippet.title of the two videos, while they are available.
TitleOf(id) == IF id = "a" THEN "Old" ELSE "New: video"

\* `+new Date(str)`: milliseconds since the epoch.
DateMs(str) ==
  CASE str = "1970-01-10T00:00:00Z" -> 777600000
    [] str = "1970-01-20T00:00:00Z" -> 1641600000

(***************************************************************************)
(* Videos.                                                                 *)
(***************************************************************************)
\* The fields of the `Video` type.
VideoFields == {"id", "title", "description", "channelId", "channelName",
                "dateCreated", "dateAddedToPlaylist", "thumbnailUrls",
                "durationInSeconds", "url", "channelUrl",
                "audioFileExtension", "videoFileExtension", "isUnavailable"}

\* A variant that knows the title of a private video only.
IsPrivateTitle(title) == title = "Private video"

\* `title === 'Private video' || title === 'Deleted video'`
IsUnavailableTitle(title) ==
  title = "Private video" \/ title = "Deleted video"

\* `sanitizeTitle` of main.ts:1617-1622: `sanitizeFilename(str, {replacement:
\* ' '})` with every run of white space made one space.  The package
\* sanitize-filename replaces, in this order, each of / ? < > \ : * | " and
\* each control character, a name that is only dots, a name Windows
\* reserves (with any extension), and the dots and spaces the name ends
\* with; it keeps the first 255 bytes; and with a replacement that is not
\* empty it does the same once more with the empty replacement.  Titles are
\* of printable ASCII characters, of which the space is the only white
\* space and none is a control character.
SanitizeTitle(str) ==
  LET CharAt(s, i) == SubSeq(s, i, i)
      Illegal == {"/", "?", "<", ">", "\\", ":", "*", "|", "\""}
      RECURSIVE ReplaceIllegal(_, _)
      ReplaceIllegal(s, replacement) ==
        IF s = "" THEN ""
        ELSE (IF CharAt(s, 1) \in Illegal THEN replacement
              ELSE CharAt(s, 1))
               \o ReplaceIllegal(SubSeq(s, 2, Len(s)), replacement)
      OnlyDots(s) == s # "" /\ \A i \in 1..Len(s) : CharAt(s, i) = "."
      Lower(c) ==
        CASE c = "A" -> "a" [] c = "C" -> "c" [] c = "L" -> "l"
          [] c = "M" -> "m" [] c = "N" -> "n" [] c = "O" -> "o"
          [] c = "P" -> "p" [] c = "R" -> "r" [] c = "T" -> "t"
          [] c = "U" -> "u" [] c = "X" -> "x" [] OTHER -> c
      RECURSIVE LowerCase(_)
      LowerCase(s) ==
        IF s = "" THEN ""
        ELSE Lower(CharAt(s, 1)) \o LowerCase(SubSeq(s, 2, Len(s)))
      Digit == {"0", "1", "2", "3", "4", "5", "6", "7", "8", "9"}
      \* The name before its first dot.
      Stem(s) ==
        IF \E i \in 1..Len(s) : CharAt(s, i) = "."
          THEN SubSeq(s, 1, (CHOOSE i \in 1..Len(s) :
                               /\ CharAt(s, i) = "."
                               /\ \A j \in 1..(i - 1) : CharAt(s, j) # ".")
                            - 1)
          ELSE s
      WindowsReserved(s) ==
        LET stem == LowerCase(Stem(s))
        IN \/ stem \in {"con", "prn", "aux", "nul"}
           \/ /\ Len(stem) = 4
              /\ SubSeq(stem, 1, 3) \in {"com", "lpt"}
              /\ CharAt(stem, 4) \in Digit
      RECURSIVE TrimTrailing(_)
      TrimTrailing(s) ==
        IF s # "" /\ CharAt(s, Len(s)) \in {".", " "}
          THEN TrimTrailing(SubSeq(s, 1, Len(s) - 1))
          ELSE s
      Truncate(s) == IF Len(s) > 255 THEN SubSeq(s, 1, 255) ELSE s
      Sanitize(input, replacement) ==
        LET illegal == ReplaceIllegal(input, replacement)
            reserved == IF OnlyDots(illegal) THEN replacement ELSE illegal
            windowsReserved ==
              IF WindowsReserved(reserved) THEN replacement ELSE reserved
            windowsTrailing ==
              IF TrimTrailing(windowsReserved) # windowsReserved
                THEN TrimTrailing(windowsReserved) \o replacement
                ELSE windowsReserved
        IN Truncate(windowsTrailing)
      safeTitle == Sanitize(Sanitize(str, " "), "")
      RECURSIVE CollapseSpaces(_)
      CollapseSpaces(s) ==
        IF Len(s) < 2 THEN s
        ELSE IF CharAt(s, 1) = " " /\ CharAt(s, 2) = " "
          THEN CollapseSpaces(SubSeq(s, 2, Len(s)))
          ELSE CharAt(s, 1) \o CollapseSpaces(SubSeq(s, 2, Len(s)))
  IN CollapseSpaces(safeTitle)

\* snippet.title of the items of the playlists.
Titles == {TitleOf(id) : id \in Ids} \cup {"Private video", "Deleted video"}

\* sanitizeTitle of each of these titles, computed once.
SanitizedTitles == [title \in Titles |-> SanitizeTitle(title)]

\* `sanitizeTitle(snippet.title)` of main.ts:394.
SanitizedTitle(title) ==
  IF title \in Titles THEN SanitizedTitles[title] ELSE SanitizeTitle(title)

\* The partial video built from a parsed playlist item (main.ts:386-411):
\* the title is sanitized, and isUnavailable is of the title as listed.
PartialVideo(item) ==
  [id |-> item.videoId,
   title |-> SanitizedTitle(item.title),
   description |-> item.description,
   channelId |-> item.videoOwnerChannelId,
   channelName |-> item.videoOwnerChannelTitle,
   dateCreated |-> item.videoPublishedAt,
   dateAddedToPlaylist |-> item.publishedAt,
   thumbnailUrls |-> item.thumbnails,
   url |-> "https://www.youtube.com/watch?v=" \o item.videoId,
   channelUrl |-> "https://www.youtube.com/channel/"
                    \o item.videoOwnerChannelId,
   isUnavailable |-> IsUnavailableTitle(item.title)]

\* A video a download promise function resolves with: the partial video, its
\* duration and the extensions parsed from the yt-dlp json.
DownloadedVideo(partialVideo, durationInSeconds, exts) ==
  [f \in VideoFields |->
     CASE f = "durationInSeconds" -> durationInSeconds
       [] f = "audioFileExtension" -> exts[1]
       [] f = "videoFileExtension" -> exts[2]
       [] OTHER -> partialVideo[f]]

\* An entry of `unavailableVideos`.
UnavailableVideo(partialVideo) ==
  [f \in VideoFields |->
     CASE f = "durationInSeconds" -> 0
       [] f = "audioFileExtension" -> null
       [] f = "videoFileExtension" -> null
       [] OTHER -> partialVideo[f]]

\* What the PlaylistItems API returns for an available video.
AvailableItem(id, date) ==
  [title |-> TitleOf(id),
   videoId |-> id,
   description |-> "About " \o TitleOf(id),
   videoOwnerChannelId |-> "UC" \o id,
   videoOwnerChannelTitle |-> "Channel " \o id,
   videoPublishedAt |-> "1970-01-05T00:00:00Z",
   publishedAt |-> date,
   thumbnails |-> <<"https://i.ytimg.com/vi/" \o id \o "/maxresdefault.jpg",
                    "https://i.ytimg.com/vi/" \o id \o "/default.jpg">>]

\* What the PlaylistItems API returns for a private video: the sentinel
\* title, and the schema's defaults for the fields the API leaves out.
PrivateItem(id, date) ==
  [title |-> "Private video",
   videoId |-> id,
   description |-> "This video is private.",
   videoOwnerChannelId |-> "",
   videoOwnerChannelTitle |-> "",
   videoPublishedAt |-> "",
   publishedAt |-> date,
   thumbnails |-> <<>>]

\* Sequences over S of length at most n.
SeqsUpTo(S, n) == UNION {[1..k -> S] : k \in 0..n}

(***************************************************************************)
(* JavaScript objects keyed by video id.  Object.values lists the values  *)
(* in the order their keys were first inserted, so an object is modelled  *)
(* as the sequence of its values in that order.                           *)
(***************************************************************************)
ObjHas(obj, id) == \E i \in 1..Len(obj) : obj[i].id = id

ObjIndex(obj, id) == CHOOSE i \in 1..Len(obj) : obj[i].id = id

\* obj[id]
ObjGet(obj, id) == obj[ObjIndex(obj, id)]

\* A variant that never looks for the key.
ObjSetAppending(obj, id, video) == Append(obj, video)

\* obj[id] = video
ObjSet(obj, id, video) ==
  IF ObjHas(obj, id)
    THEN [obj EXCEPT ![ObjIndex(obj, id)] = video]
    ELSE Append(obj, video)

\* A variant that leaves the accumulator as it was.
ReduceToObjEmpty(acc, videos) == acc

\* videos.reduce((acc, video) => {acc[video.id] = video; return acc}, {})
RECURSIVE ReduceToObj(_, _)
ReduceToObj(acc, videos) ==
  IF videos = <<>> THEN acc
  ELSE ReduceToObj(ObjSet(acc, Head(videos).id, Head(videos)), Tail(videos))

\* a ?? b
Coalesce(a, b) == IF a = null THEN b ELSE a

(***************************************************************************)
(* The three updates of an existing video, and one iteration of           *)
(* totalMetadata.forEach.                                                  *)
(***************************************************************************)
\* A variant that only clears the flag of the existing video.
ReplaceWithNewVideoKeepingOld(existingVideo, video) ==
  [existingVideo EXCEPT !.isUnavailable = FALSE]

\* Unavailable => available (replace with new video)
ReplaceWithNewVideo(existingVideo, video) == video

\* A variant that stores the video the API returned.
MarkUnavailableFromApi(existingVideo, video) ==
  [video EXCEPT !.isUnavailable = TRUE]

\* Available => unavailable (update existing video)
MarkUnavailable(existingVideo, video) ==
  [existingVideo EXCEPT !.isUnavailable = TRUE]

\* A variant that merges the extensions into the video the API returned.
MergeFileExtensionsIntoNew(existingVideo, video) ==
  [video EXCEPT
     !.audioFileExtension =
        Coalesce(video.audioFileExtension, existingVideo.audioFileExtension),
     !.videoFileExtension =
        Coalesce(video.videoFileExtension, existingVideo.videoFileExtension)]

\* Both available: take the new file extensions, where there are any.
MergeFileExtensions(existingVideo, video) ==
  [existingVideo EXCEPT
     !.audioFileExtension =
        Coalesce(video.audioFileExtension, existingVideo.audioFileExtension),
     !.videoFileExtension =
        Coalesce(video.videoFileExtension, existingVideo.videoFileExtension)]

\* A variant that counts every merge of extensions.
ExtensionsChangedAlways(before, after) == TRUE

\* The comparison that decides whether a merge of extensions is counted.
ExtensionsChanged(before, after) ==
  \/ before.audioFileExtension # after.audioFileExtension
  \/ before.videoFileExtension # after.videoFileExtension

\* A variant whose first test leaves out `&& !video.isUnavailable`.
ExistingVideoUpdateAlwaysReplacing(existingVideo, video) ==
  IF existingVideo.isUnavailable
    THEN [video |-> ReplaceWithNewVideo(existingVideo, video),
          counted |-> TRUE]
  ELSE IF ~existingVideo.isUnavailable /\ video.isUnavailable
    THEN [video |-> MarkUnavailable(existingVideo, video),
          counted |-> TRUE]
  ELSE LET merged == MergeFileExtensions(existingVideo, video) IN
       [video |-> merged,
        counted |-> ExtensionsChanged(existingVideo, merged)]

\* A variant that does not count a video that became unavailable.
ExistingVideoUpdateNotCountingFlip(existingVideo, video) ==
  IF existingVideo.isUnavailable /\ ~video.isUnavailable
    THEN [video |-> ReplaceWithNewVideo(existingVideo, video),
          counted |-> TRUE]
  ELSE IF ~existingVideo.isUnavailable /\ video.isUnavailable
    THEN [video |-> MarkUnavailable(existingVideo, video),
          counted |-> FALSE]
  ELSE IF ~existingVideo.isUnavailable /\ ~video.isUnavailable
    THEN LET merged == MergeFileExtensions(existingVideo, video) IN
         [video |-> merged,
          counted |-> ExtensionsChanged(existingVideo, merged)]
  ELSE [video |-> existingVideo, counted |-> FALSE]

\* The update of a video that metadata.json already has: the new value of
\* existingMetadataObj[video.id], and whether metadataItemsUpdated++ runs.
ExistingVideoUpdate(existingVideo, video) ==
  IF existingVideo.isUnavailable /\ ~video.isUnavailable
    THEN [video |-> ReplaceWithNewVideo(existingVideo, video),
          counted |-> TRUE]
  ELSE IF ~existingVideo.isUnavailable /\ video.isUnavailable
    THEN [video |-> MarkUnavailable(existingVideo, video),
          counted |-> TRUE]
  ELSE IF ~existingVideo.isUnavailable /\ ~video.isUnavailable
    THEN LET merged == MergeFileExtensions(existingVideo, video) IN
         [video |-> merged,
          counted |-> ExtensionsChanged(existingVideo, merged)]
  ELSE [video |-> existingVideo, counted |-> FALSE]

\* One call of the forEach callback; st = [obj, updated].
UpdateMetadataItem(st, video) ==
  IF ObjHas(st.obj, video.id)
    THEN LET update == ExistingVideoUpdate(ObjGet(st.obj, video.id), video) IN
         [obj |-> ObjSet(st.obj, video.id, update.video),
          updated |-> IF update.counted THEN st.updated + 1 ELSE st.updated]
    ELSE [obj |-> ObjSet(st.obj, video.id, video),
          updated |-> st.updated + 1]

\* The states after each iteration of totalMetadata.forEach, starting from
\* the last element of `acc`.
RECURSIVE ForEachSteps(_, _)
ForEachSteps(acc, videos) ==
  IF videos = <<>> THEN acc
  ELSE ForEachSteps(Append(acc, UpdateMetadataItem(acc[Len(acc)], Head(videos))),
                    Tail(videos))

(***************************************************************************)
(* Object.values(existingMetadataObj).sort(...)                           *)
(***************************************************************************)
\* A variant with the operands exchanged.
CompareDateAddedAscending(a, b) ==
  DateMs(a.dateAddedToPlaylist) - DateMs(b.dateAddedToPlaylist)

\* The compare function: negative when a sorts before b.
CompareDateAdded(a, b) ==
  DateMs(b.dateAddedToPlaylist) - DateMs(a.dateAddedToPlaylist)

\* Array.prototype.sort is stable: insert x behind every element of the
\* sorted sequence that does not sort after it.
RECURSIVE InsertStable(_, _)
InsertStable(sorted, x) ==
  IF sorted = <<>> THEN <<x>>
  ELSE IF CompareDateAdded(Head(sorted), x) > 0
    THEN <<x>> \o sorted
    ELSE <<Head(sorted)>> \o InsertStable(Tail(sorted), x)

RECURSIVE SortInto(_, _)
SortInto(sorted, rest) ==
  IF rest = <<>> THEN sorted
  ELSE SortInto(InsertStable(sorted, Head(rest)), Tail(rest))

SortedMetadata(obj) == SortInto(<<>>, obj)

(***************************************************************************)
(* The run.  metadata.json holds only strings, finite numbers, booleans,  *)
(* null and arrays of strings, which JSON.stringify and Response.json()   *)
(* give back unchanged, so the file is modelled as the array it holds.     *)
(***************************************************************************)
NoRun ==
  /\ freshMetadata = <<>>
  /\ potentialOnDisk = <<>>
  /\ unavailableVideos = <<>>
  /\ existingMetadata = <<>>
  /\ totalMetadata = <<>>
  /\ steps = <<>>
  /\ existingMetadataObj = <<>>
  /\ metadataItemsUpdated = 0
  /\ shouldWriteMetadata = FALSE
  /\ written = FALSE
  /\ thumbnailsToDownload = <<>>
  /\ failures = <<>>

\* No step of part_021 has run.
NoSteps ==
  /\ youTubeFetchCount = 0
  /\ playlistItemsCall = <<>>
  /\ playlistItemsApi = <<>>
  /\ playlistItemListResponses = <<>>
  /\ options = <<>>
  /\ downloadCount = [video |-> 0, audio |-> 0, thumbnail |-> 0]
  /\ thumbnailCall = <<>>
  /\ thumbnailFetches = <<>>
  /\ thumbnailFile = <<>>
  /\ fetchIdChunks = <<>>
  /\ videosListCalls = <<>>
  /\ videosListApi = <<>>
  /\ videoListResponses = <<>>
  /\ units = <<>>
  /\ wave = 0
  /\ completions = <<>>
  /\ videosDownloaded = <<>>
  /\ partialVideosMetadata = <<>>
  /\ partialVideosWithDurationMetadata = <<>>
  /\ idsToDownload = <<>>
  /\ ytDlpPath = "null"
  /\ ffmpegPath = "null"

Init ==
  /\ metadataJson = <<>>
  /\ pc = "idle"
  /\ NoRun
  /\ NoSteps

\* A variant that writes the file whatever the count.
MetadataChangedAlways(updated) == TRUE

\* `if (metadataItemsUpdated)`: whether the file is sorted and written.
MetadataChanged(updated) == updated # 0

\* The reconciliation of STEP 6: shouldWriteMetadata, totalMetadata and the
\* states of existingMetadataObj / metadataItemsUpdated through the forEach.
Reconcile(existing, fresh, onDisk, unavailable) ==
  LET isMetadataJsonMissing == Len(existing) = 0
      shouldWrite == Len(fresh) # 0 \/ isMetadataJsonMissing
      videoMetadataToWrite ==
        IF Len(fresh) # 0 THEN fresh
        ELSE IF isMetadataJsonMissing THEN onDisk
        ELSE <<>>
      total == videoMetadataToWrite \o unavailable
  IN [shouldWrite |-> shouldWrite,
      total |-> total,
      trace |-> ForEachSteps(
                  <<[obj |-> ReduceToObj(<<>>, existing), updated |-> 0]>>,
                  total)]

(***************************************************************************)
(* Vocabulary of the properties.                                           *)
(***************************************************************************)
\* The run has reconciled: steps[k] is the state before the k-th video of
\* totalMetadata was handled, steps[k + 1] the state after.
Reconciled == pc = "done" /\ shouldWriteMetadata
Handled == IF Reconciled THEN 1..Len(totalMetadata) ELSE {}

HasId(videos, id) == \E i \in 1..Len(videos) : videos[i].id = id
Find(videos, id) == videos[CHOOSE i \in 1..Len(videos) : videos[i].id = id]
IdsOf(videos) == {videos[i].id : i \in 1..Len(videos)}

\* The cases of the reconciliation, for the k-th video of totalMetadata.
IsNew(k) == ~HasId(steps[k].obj, totalMetadata[k].id)
IsRecovery(k) ==
  /\ HasId(steps[k].obj, totalMetadata[k].id)
  /\ Find(steps[k].obj, totalMetadata[k].id).isUnavailable
  /\ ~totalMetadata[k].isUnavailable
IsFlip(k) ==
  /\ HasId(steps[k].obj, totalMetadata[k].id)
  /\ ~Find(steps[k].obj, totalMetadata[k].id).isUnavailable
  /\ totalMetadata[k].isUnavailable
IsBothAvailable(k) ==
  /\ HasId(steps[k].obj, totalMetadata[k].id)
  /\ ~Find(steps[k].obj, totalMetadata[k].id).isUnavailable
  /\ ~totalMetadata[k].isUnavailable
Before(k) == Find(steps[k].obj, totalMetadata[k].id)
After(k) == Find(steps[k + 1].obj, totalMetadata[k].id)

(***************************************************************************)
(* C1.  When the reconciliation handles an unavailable fresh video whose   *)
(* record in the merged data is available, the record's isUnavailable      *)
(* becomes true and every other field keeps the value it had.              *)
(***************************************************************************)
C1_FlipKeepsEveryOtherField ==
  \A k \in Handled :
    IsFlip(k) =>
      /\ HasId(steps[k + 1].obj, totalMetadata[k].id)
      /\ After(k).isUnavailable = TRUE
      /\ \A f \in VideoFields \ {"isUnavailable"} : After(k)[f] = Before(k)[f]

\* A written run flipped a record read from metadata.json, and the fresh
\* video differs from that record in its title and duration.
C1_Witness ==
  /\ Reconciled /\ written
  /\ \E k \in Handled :
       /\ IsFlip(k)
       /\ HasId(existingMetadata, totalMetadata[k].id)
       /\ Before(k) = Find(existingMetadata, totalMetadata[k].id)
       /\ totalMetadata[k].title # Before(k).title
       /\ totalMetadata[k].durationInSeconds # Before(k).durationInSeconds
       /\ Find(metadataJson, totalMetadata[k].id).title = Before(k).title
       /\ Find(metadataJson, totalMetadata[k].id).isUnavailable

(***************************************************************************)
(* C2.  When the record in the merged data is unavailable and the fresh    *)
(* video with its id is available, the record becomes the fresh video in   *)
(* every field.                                                            *)
(***************************************************************************)
C2_RecoveryReplacesWholesale ==
  \A k \in Handled :
    IsRecovery(k) =>
      /\ HasId(steps[k + 1].obj, totalMetadata[k].id)
      /\ After(k) = totalMetadata[k]

\* A written run replaced an unavailable record of metadata.json by a fresh
\* video that differs from it in title, date and file extensions.
C2_Witness ==
  /\ Reconciled /\ written
  /\ \E k \in Handled :
       /\ IsRecovery(k)
       /\ HasId(existingMetadata, totalMetadata[k].id)
       /\ Before(k) = Find(existingMetadata, totalMetadata[k].id)
       /\ Before(k).title # totalMetadata[k].title
       /\ Before(k).dateAddedToPlaylist # totalMetadata[k].dateAddedToPlaylist
       /\ Before(k).audioFileExtension # totalMetadata[k].audioFileExtension
       /\ Find(metadataJson, totalMetadata[k].id) = totalMetadata[k]

(***************************************************************************)
(* C3.  A record of metadata.json that is unavailable, whose id is absent  *)
(* from the fresh data of a run or occurs there only as unavailable, is    *)
(* the same in every field after the run: in the merged data, and in       *)
(* metadata.json when the run wrote it or had nothing to write.  (When the *)
(* write of the run fails, the file is as another call left it.)           *)
(***************************************************************************)
StillUnavailable(id) ==
  \A k \in 1..Len(totalMetadata) :
    totalMetadata[k].id = id => totalMetadata[k].isUnavailable

\* C3: an unavailable record that the fresh data does not report as
\* available is unchanged by the run.
C3_UnavailableRecordIsKept ==
  pc = "done" =>
    \A i \in 1..Len(existingMetadata) :
      (existingMetadata[i].isUnavailable
         /\ StillUnavailable(existingMetadata[i].id)) =>
        /\ shouldWriteMetadata =>
             /\ HasId(existingMetadataObj, existingMetadata[i].id)
             /\ Find(existingMetadataObj, existingMetadata[i].id)
                  = existingMetadata[i]
        /\ (written \/ metadataItemsUpdated = 0) =>
             /\ HasId(metadataJson, existingMetadata[i].id)
             /\ Find(metadataJson, existingMetadata[i].id)
                  = existingMetadata[i]

\* A written run handled a fresh unavailable video, with another date, for
\* an unavailable record that still has the data of when it was available.
C3_Witness ==
  /\ Reconciled /\ written
  /\ \E i \in 1..Len(existingMetadata) :
       /\ existingMetadata[i].isUnavailable
       /\ existingMetadata[i].title # "Private video"
       /\ StillUnavailable(existingMetadata[i].id)
       /\ \E k \in Handled :
            /\ totalMetadata[k].id = existingMetadata[i].id
            /\ totalMetadata[k].dateAddedToPlaylist
                 # existingMetadata[i].dateAddedToPlaylist

(***************************************************************************)
(* C4.  Reconciling the fresh input of a run a second time, against the    *)
(* metadata.json the run left, updates nothing and gives the same merged   *)
(* data.                                                                   *)
(***************************************************************************)
\* The metadata.json of the state is what the reconciliation of the run
\* produced: the run wrote its merged data, or had nothing to update.
RunPersisted == Reconciled /\ (written \/ metadataItemsUpdated = 0)

\* The reconciliation of the same fresh input against the present file.
SecondReconcile ==
  Reconcile(metadataJson, freshMetadata, potentialOnDisk, unavailableVideos)
SecondUpdated ==
  IF SecondReconcile.shouldWrite
    THEN SecondReconcile.trace[Len(SecondReconcile.trace)].updated
    ELSE 0
SecondMerged ==
  IF SecondReconcile.shouldWrite
    THEN SecondReconcile.trace[Len(SecondReconcile.trace)].obj
    ELSE metadataJson

\* C4 for every fresh input: the second reconciliation updates nothing and
\* gives the same merged data.
C4_Original ==
  RunPersisted => SecondUpdated = 0 /\ SecondMerged = metadataJson

\* No id occurs in the fresh input both as available and as unavailable, or
\* with two different audio or two different video file extensions.
OccurrencesAgree ==
  \A j, k \in 1..Len(totalMetadata) :
    totalMetadata[j].id = totalMetadata[k].id =>
      /\ totalMetadata[j].isUnavailable = totalMetadata[k].isUnavailable
      /\ \/ totalMetadata[j].audioFileExtension = null
         \/ totalMetadata[k].audioFileExtension = null
         \/ totalMetadata[j].audioFileExtension
              = totalMetadata[k].audioFileExtension
      /\ \/ totalMetadata[j].videoFileExtension = null
         \/ totalMetadata[k].videoFileExtension = null
         \/ totalMetadata[j].videoFileExtension
              = totalMetadata[k].videoFileExtension

\* C4, when the occurrences of each id agree: the second reconciliation
\* updates nothing and gives the same merged data.
C4_IdempotentWhenOccurrencesAgree ==
  (RunPersisted /\ OccurrencesAgree) =>
    SecondUpdated = 0 /\ SecondMerged = metadataJson

\* A run updated and wrote metadata.json from two fresh videos, and the
\* second reconciliation handles both without an update.
C4_Witness ==
  /\ Reconciled /\ written /\ OccurrencesAgree
  /\ metadataItemsUpdated = 2
  /\ SecondReconcile.shouldWrite
  /\ Len(SecondReconcile.total) = 2
  /\ SecondUpdated = 0

(***************************************************************************)
(* C5.  A run whose reconciliation updated nothing does not write          *)
(* metadata.json.                                                          *)
(***************************************************************************)
C5_NoWriteWithoutUpdate ==
  (pc = "done" /\ metadataItemsUpdated = 0) =>
    /\ ~written
    /\ metadataJson = existingMetadata

\* A run reconciled fresh videos against a file that has them, found
\* nothing to update and left the file alone.
C5_Witness ==
  /\ Reconciled
  /\ Len(totalMetadata) > 0
  /\ Len(existingMetadata) > 0
  /\ metadataItemsUpdated = 0
  /\ ~written

(***************************************************************************)
(* C6.  Every id of metadata.json before a run is in the merged data and   *)
(* in metadata.json after the run, whether or not the fresh data has it.   *)
(***************************************************************************)
C6_NoRecordIsDeleted ==
  pc = "done" =>
    /\ IdsOf(existingMetadata) \subseteq IdsOf(metadataJson)
    /\ shouldWriteMetadata =>
         IdsOf(existingMetadata) \subseteq IdsOf(existingMetadataObj)

\* A written run whose fresh data lacks an id of metadata.json.
C6_Witness ==
  /\ Reconciled /\ written
  /\ \E id \in IdsOf(existingMetadata) :
       /\ id \notin IdsOf(totalMetadata)
       /\ id \in IdsOf(metadataJson)

(***************************************************************************)
(* C7.  No two records of the merged data, or of metadata.json, have the   *)
(* same id, also when the fresh data has an id more than once.             *)
(***************************************************************************)
UniqueIds(videos) ==
  \A i, j \in 1..Len(videos) : videos[i].id = videos[j].id => i = j

\* C7: ids are unique in metadata.json and in the merged data.
C7_IdsAreUnique ==
  /\ UniqueIds(metadataJson)
  /\ Reconciled => UniqueIds(existingMetadataObj)

\* A written run whose fresh data has the same id twice.
C7_Witness ==
  /\ Reconciled /\ written
  /\ ~UniqueIds(totalMetadata)
  /\ Len(metadataJson) > 0

(***************************************************************************)
(* C8.  metadata.json is ordered by dateAddedToPlaylist, the latest first. *)
(***************************************************************************)
DescendingByDate(videos) ==
  \A i, j \in 1..Len(videos) :
    i < j => DateMs(videos[i].dateAddedToPlaylist)
               >= DateMs(videos[j].dateAddedToPlaylist)

\* Records of the same date are in the order of their ids;
\* of the ids, "a" is before "b".
IdBefore(x, y) == x = "a" /\ y = "b"

TiesByIdOrder(videos) ==
  \A i, j \in 1..Len(videos) :
    (i < j /\ DateMs(videos[i].dateAddedToPlaylist)
                = DateMs(videos[j].dateAddedToPlaylist)) =>
      IdBefore(videos[i].id, videos[j].id)

\* C8 with the id as tiebreak: the latest first, and equal dates by id.
C8_Original == DescendingByDate(metadataJson) /\ TiesByIdOrder(metadataJson)

\* Records of the same date are in the order Object.values gives them: the
\* order in which their ids entered existingMetadataObj.
TiesByInsertion(videos, obj) ==
  \A i, j \in 1..Len(videos) :
    (i < j /\ DateMs(videos[i].dateAddedToPlaylist)
                = DateMs(videos[j].dateAddedToPlaylist)) =>
      \E m, n \in 1..Len(obj) :
        m < n /\ obj[m] = videos[i] /\ obj[n] = videos[j]

\* C8 with the order the code gives to equal dates: the latest first, and
\* equal dates in the order of insertion into the merged data.
C8_SortedByDateTiesByInsertion ==
  /\ DescendingByDate(metadataJson)
  /\ (Reconciled /\ written) =>
       /\ Len(metadataJson) = Len(existingMetadataObj)
       /\ TiesByInsertion(metadataJson, existingMetadataObj)

\* A written run left two records of the same date in metadata.json, "b"
\* before "a", the order in which the run inserted them.
C8_Witness ==
  /\ Reconciled /\ written
  /\ Len(metadataJson) = 2
  /\ metadataJson[1].id = "b" /\ metadataJson[2].id = "a"
  /\ DateMs(metadataJson[1].dateAddedToPlaylist)
       = DateMs(metadataJson[2].dateAddedToPlaylist)
  /\ existingMetadata = <<>>
  /\ totalMetadata[1].id = "b"

(***************************************************************************)
(* C9.  When the record in the merged data and the fresh video are both    *)
(* available, the reconciliation changes no field of the record but the    *)
(* two file extensions, and counts an update exactly when one of the two   *)
(* differs from its previous value.                                        *)
(***************************************************************************)
ExtensionFields == {"audioFileExtension", "videoFileExtension"}

\* C9: only the file extensions of the record change, and the update is
\* counted exactly when one of them changed.
C9_BothAvailableMergesExtensionsOnly ==
  \A k \in Handled :
    IsBothAvailable(k) =>
      /\ HasId(steps[k + 1].obj, totalMetadata[k].id)
      /\ \A f \in VideoFields \ ExtensionFields : After(k)[f] = Before(k)[f]
      /\ steps[k + 1].updated - steps[k].updated =
           IF \E f \in ExtensionFields : After(k)[f] # Before(k)[f]
             THEN 1 ELSE 0

\* A run merged a new extension into an available record whose date differs
\* from the date of the fresh video, and another run merged nothing.
C9_Witness ==
  /\ Reconciled /\ written
  /\ \E k \in Handled :
       /\ IsBothAvailable(k)
       /\ Before(k).dateAddedToPlaylist # totalMetadata[k].dateAddedToPlaylist
       /\ Before(k).videoFileExtension = null
       /\ After(k).videoFileExtension = "mp4"
       /\ After(k).audioFileExtension = "mp3"
       /\ steps[k + 1].updated = steps[k].updated + 1

\* A run handled an available video whose extension the record already had.
C9_WitnessUnchanged ==
  /\ Reconciled
  /\ \E k \in Handled :
       /\ IsBothAvailable(k)
       /\ After(k) = Before(k)
       /\ steps[k + 1].updated = steps[k].updated

(***************************************************************************)
(* C10.  metadataItemsUpdated is the number of fresh videos handled as     *)
(* new, as a recovery or as a flip, plus the number of both-available      *)
(* videos whose merge changed the record.  With metadata.json = [a,        *)
(* available] and fresh data a (unavailable) and b (new), it is 2, b is    *)
(* inserted as given and a keeps its title.                                *)
(***************************************************************************)
Counted(k) ==
  \/ IsNew(k)
  \/ IsRecovery(k)
  \/ IsFlip(k)
  \/ IsBothAvailable(k) /\ After(k) # Before(k)

\* The scenario: metadata.json is [a], available and titled "Old"; the
\* fresh data is b, available, and a, unavailable.
Scenario ==
  /\ Reconciled
  /\ Len(existingMetadata) = 1
  /\ existingMetadata[1].id = "a"
  /\ existingMetadata[1].title = "Old"
  /\ ~existingMetadata[1].isUnavailable
  /\ Len(totalMetadata) = 2
  /\ totalMetadata[1].id = "b" /\ ~totalMetadata[1].isUnavailable
  /\ totalMetadata[2].id = "a" /\ totalMetadata[2].isUnavailable

\* C10: the count is the number of counted cases, and 2 in the scenario.
C10_UpdateCount ==
  /\ Reconciled =>
       metadataItemsUpdated = Cardinality({k \in Handled : Counted(k)})
  /\ Scenario =>
       /\ metadataItemsUpdated = 2
       /\ Len(existingMetadataObj) = 2
       /\ Find(existingMetadataObj, "b") = totalMetadata[1]
       /\ Find(existingMetadataObj, "a")
            = [existingMetadata[1] EXCEPT !.isUnavailable = TRUE]

\* The scenario, written: metadata.json has a, titled "Old" and now
\* unavailable, and b, titled "New video".
C10_Witness ==
  /\ Scenario /\ written
  /\ metadataItemsUpdated = 2
  /\ Find(metadataJson, "a").title = "Old"
  /\ Find(metadataJson, "a").isUnavailable
  /\ Find(metadataJson, "b").title = "New video"

(***************************************************************************)
(* STEP 2 of part_021: the pages of the playlist.                          *)
(*                                                                         *)
(* pc is "playlistItems.list" while a request of _genPlaylistItems is in  *)
(* flight and "partialVideosMetadata" once playlistItemListResponses is   *)
(* assigned; playlistItemsCall then keeps the arguments of the last call.  *)
(***************************************************************************)
\* The provider's playlist has at most MaxPages pages: its MaxPages-th page
\* carries no continuation token.
MaxPages == 4

MAX_YOUTUBE_RESULTS == 50

\* The token of a request for the first page (`pageToken: undefined`), and
\* the nextPageToken of a last page.  The token p > 0 designates page p.
NoPageToken == 0

\* `Infinity`, and the finite numbers, as totals of items to fetch.
Infinity == [n |-> 0, finite |-> FALSE]
Finite(n) == [n |-> n, finite |-> TRUE]

\* `undefined`, for an option that was not given.
undefined == <<>>

\* `NaN`, the number that is no number: a pair, unlike every <<n>>.
NaN == <<0, 0>>

\* The values of options.mostRecentItemsCount: not given, NaN, or <<n>>.
MostRecentItemsCounts ==
  {undefined, NaN} \cup
  {<<n>> : n \in {-MAX_YOUTUBE_RESULTS, -1, 0, 1, MAX_YOUTUBE_RESULTS,
                  MAX_YOUTUBE_RESULTS + 1, 2 * MAX_YOUTUBE_RESULTS}}

\* `mostRecentItemsCount || Infinity`: undefined, NaN and 0 are falsy.
TotalItemsToFetch(mostRecentItemsCount) ==
  IF \/ mostRecentItemsCount = undefined
     \/ mostRecentItemsCount = NaN
     \/ mostRecentItemsCount[1] = 0
    THEN Infinity
    ELSE Finite(mostRecentItemsCount[1])

\* `totalItemsToFetch - itemsFetchedCount`
ItemsLeftToFetch(totalItemsToFetch, itemsFetchedCount) ==
  IF totalItemsToFetch.finite
    THEN Finite(totalItemsToFetch.n - itemsFetchedCount)
    ELSE Infinity

\* A variant that always asks for a full page.
MaxResultsAlwaysMax(totalItemsToFetch, itemsFetchedCount) ==
  MAX_YOUTUBE_RESULTS

\* The maxResults of the request.
MaxResults(totalItemsToFetch, itemsFetchedCount) ==
  LET itemsLeftToFetch == ItemsLeftToFetch(totalItemsToFetch,
                                           itemsFetchedCount)
  IN IF /\ itemsLeftToFetch.finite
        /\ itemsLeftToFetch.n > 0
        /\ itemsLeftToFetch.n <= MAX_YOUTUBE_RESULTS
       THEN itemsLeftToFetch.n
       ELSE MAX_YOUTUBE_RESULTS

\* A variant that also continues when the total has just been reached.
ShouldContinueFetchingAtTotal(totalItemsToFetch, newItemsFetchedCount) ==
  LET left == ItemsLeftToFetch(totalItemsToFetch, newItemsFetchedCount)
  IN ~left.finite \/ left.n >= 0

\* `totalItemsToFetch - newItemsFetchedCount > 0`
ShouldContinueFetching(totalItemsToFetch, newItemsFetchedCount) ==
  LET left == ItemsLeftToFetch(totalItemsToFetch, newItemsFetchedCount)
  IN ~left.finite \/ left.n > 0

\* The arguments of a call of _genPlaylistItems, with the maxResults of the
\* request it sends.
GenPlaylistItemsCall(totalItemsToFetch, itemsFetchedCount, pageToken, responses) ==
  [totalItemsToFetch |-> totalItemsToFetch,
   itemsFetchedCount |-> itemsFetchedCount,
   pageToken |-> pageToken,
   responses |-> responses,
   maxResults |-> MaxResults(totalItemsToFetch, itemsFetchedCount)]

\* The request a call sends, as the provider sees it.
ListRequest(call) ==
  [pageToken |-> call.pageToken, maxResults |-> call.maxResults,
   event |-> "request"]

\* The provider's answer to a request with this token: the page the token
\* designates, with `items` items, and the token of the next page if there
\* is one.
PlaylistItemListResponse(pageToken, items, hasNext) ==
  LET page == IF pageToken = NoPageToken THEN 1 ELSE pageToken
  IN [event |-> "response", items |-> items, page |-> page,
      nextPageToken |-> IF hasNext THEN page + 1 ELSE NoPageToken]

\* What a call of _genPlaylistItems does with the response to its request:
\* it makes the recursive call, or its promise is fulfilled.
GenPlaylistItemsFulfilled(call, response) ==
  LET updatededResponses == Append(call.responses, response)
      newItemsFetchedCount == call.itemsFetchedCount + response.items
      shouldContinueFetching ==
        ShouldContinueFetching(call.totalItemsToFetch, newItemsFetchedCount)
  IN IF response.nextPageToken # NoPageToken /\ shouldContinueFetching
       THEN [call |-> GenPlaylistItemsCall(call.totalItemsToFetch,
                                           newItemsFetchedCount,
                                           response.nextPageToken,
                                           updatededResponses),
             status |-> "pending"]
       ELSE [status |-> "fulfilled", value |-> updatededResponses]

\* A variant that returns the pages collected so far when a request fails.
GenPlaylistItemsRejectedReturningResponses(call, error) ==
  [status |-> "fulfilled", value |-> call.responses]

\* The request of a call fails: the `await` throws, and the promise of the
\* call, and with it the promise of every call above it, is rejected.
GenPlaylistItemsRejected(call, error) ==
  [status |-> "rejected", reason |-> error]

\* downloadYouTubePlaylist calls genPlaylistItems, which sends the request
\* for the first page.
GenPlaylistItems ==
  /\ pc = "idle"
  /\ playlistItemsCall = <<>>
  /\ \E mostRecentItemsCount \in MostRecentItemsCounts :
       LET call == GenPlaylistItemsCall(
                     TotalItemsToFetch(mostRecentItemsCount), 0,
                     NoPageToken, <<>>)
       IN /\ playlistItemsCall' = call
          /\ playlistItemsApi' = <<ListRequest(call)>>
  /\ pc' = "playlistItems.list"
  /\ UNCHANGED <<youTubeFetchCount, playlistItemListResponses, failures>>
  /\ UNCHANGED notPlaylistVars

\* The settled promise of genPlaylistItems reaches the `await` of
\* part_021:147, through the `.catch` of part_021:153.
AwaitGenPlaylistItems(settled) ==
  IF settled.status = "fulfilled"
    THEN /\ playlistItemListResponses' = settled.value
         /\ failures' = failures
    ELSE /\ playlistItemListResponses' = <<>>
         /\ failures' = Append(failures, [type |-> "generic",
                                          context |-> "genPlaylistItems"])

\* The provider answers the request in flight with a page of `items` items.
PlaylistItemsListFulfilled(items, hasNext) ==
  /\ pc = "playlistItems.list"
  /\ items <= playlistItemsCall.maxResults
  /\ LET response == PlaylistItemListResponse(playlistItemsCall.pageToken,
                                              items, hasNext)
         result == GenPlaylistItemsFulfilled(playlistItemsCall, response)
     IN /\ hasNext => response.page < MaxPages
        /\ youTubeFetchCount' = youTubeFetchCount + 1
        /\ IF result.status = "pending"
             THEN /\ playlistItemsCall' = result.call
                  /\ playlistItemsApi' =
                       playlistItemsApi \o <<response, ListRequest(result.call)>>
                  /\ UNCHANGED <<pc, playlistItemListResponses, failures>>
             ELSE /\ playlistItemsApi' = Append(playlistItemsApi, response)
                  /\ AwaitGenPlaylistItems(result)
                  /\ pc' = "partialVideosMetadata"
                  /\ UNCHANGED playlistItemsCall
  /\ UNCHANGED notPlaylistVars

\* The request in flight fails.
PlaylistItemsListRejected ==
  /\ pc = "playlistItems.list"
  /\ playlistItemsApi' = Append(playlistItemsApi, [event |-> "error"])
  /\ AwaitGenPlaylistItems(GenPlaylistItemsRejected(playlistItemsCall,
                                                    "error"))
  /\ pc' = "partialVideosMetadata"
  /\ UNCHANGED <<playlistItemsCall, youTubeFetchCount>>
  /\ UNCHANGED notPlaylistVars

\* The numbers of items a page carries in the model: none, one, or as many
\* as the request allows.
PageSizes == {0, 1, MAX_YOUTUBE_RESULTS - 1, MAX_YOUTUBE_RESULTS}

PagesNext ==
  \/ GenPlaylistItems
  \/ \E items \in PageSizes, hasNext \in BOOLEAN :
       PlaylistItemsListFulfilled(items, hasNext)
  \/ PlaylistItemsListRejected

PagesSpec == Init /\ [][PagesNext]_vars

(***************************************************************************)
(* Properties of the pages.                                                *)
(***************************************************************************)
\* The events of the provider that are pages, in the provider's order.
RECURSIVE PagesOf(_)
PagesOf(api) ==
  IF api = <<>> THEN <<>>
  ELSE IF Head(api).event = "response"
    THEN <<Head(api)>> \o PagesOf(Tail(api))
    ELSE PagesOf(Tail(api))

RECURSIVE ItemsIn(_)
ItemsIn(pages) ==
  IF pages = <<>> THEN 0 ELSE Head(pages).items + ItemsIn(Tail(pages))

\* The run is past the pagination.
Paginated == pc = "partialVideosMetadata"

\* A request of the pagination failed.
PageFetchFailed ==
  \E i \in 1..Len(playlistItemsApi) : playlistItemsApi[i].event = "error"

GenericFailures(context) ==
  SelectSeq(failures, LAMBDA f : f.type = "generic" /\ f.context = context)

\* C19 as stated: when a page fetch fails after k pages were collected, a
\* failure is recorded, no further request is sent, and the k pages are the
\* playlistItemListResponses the rest of the run uses.
C19_Original ==
  (Paginated /\ PageFetchFailed) =>
    /\ Len(failures) = 1
    /\ playlistItemsApi[Len(playlistItemsApi)].event = "error"
    /\ playlistItemListResponses = PagesOf(playlistItemsApi)

\* C19: when a page fetch fails after k pages were collected, one failure
\* of type generic with context genPlaylistItems is recorded, no further
\* request is sent, and the pages collected are discarded: the rest of the
\* run uses an empty playlistItemListResponses, while youTubeFetchCount
\* still counts the k pages.
C19_PageFetchFailureDiscardsPages ==
  (Paginated /\ PageFetchFailed) =>
    /\ failures = GenericFailures("genPlaylistItems")
    /\ Len(failures) = 1
    /\ playlistItemsApi[Len(playlistItemsApi)].event = "error"
    /\ playlistItemListResponses = <<>>
    /\ youTubeFetchCount = Len(PagesOf(playlistItemsApi))

C19_Witness ==
  /\ Paginated
  /\ PageFetchFailed
  /\ Len(PagesOf(playlistItemsApi)) = 2
  /\ playlistItemListResponses = <<>>

\* The cumulative number of items is below the cap.
BelowItemCap(totalItemsToFetch, count) ==
  ~totalItemsToFetch.finite \/ count < totalItemsToFetch.n

\* The event before position i is a page that warrants a further request.
WarrantsRequest(api, i) ==
  /\ api[i - 1].event = "response"
  /\ api[i - 1].nextPageToken # NoPageToken
  /\ BelowItemCap(playlistItemsCall.totalItemsToFetch,
                  ItemsIn(PagesOf(SubSeq(api, 1, i - 1))))

\* C20: a further page is requested if and only if the last response
\* carried a continuation token and the items received so far are fewer
\* than the cap; the request carries that token; and the pages returned are
\* the provider's pages, in the provider's order.
C20_RequestsWhileTokenAndBelowCap ==
  LET api == playlistItemsApi IN
  /\ \A i \in 2..Len(api) :
       api[i].event = "request" =>
         WarrantsRequest(api, i) /\ api[i].pageToken = api[i - 1].nextPageToken
  /\ \A i \in 2..(Len(api) + 1) :
       WarrantsRequest(api, i) => i <= Len(api) /\ api[i].event = "request"
  /\ (Paginated /\ ~PageFetchFailed) =>
       /\ playlistItemListResponses = PagesOf(api)
       /\ \A i \in 1..Len(playlistItemListResponses) :
            playlistItemListResponses[i].page = i

\* The cap was reached on the second page, which carried a token, and no
\* third page was requested.
C20_Witness ==
  /\ Paginated
  /\ ~PageFetchFailed
  /\ Len(playlistItemListResponses) = 2
  /\ playlistItemListResponses[2].nextPageToken # NoPageToken
  /\ playlistItemsCall.totalItemsToFetch.finite
  /\ ItemsIn(playlistItemListResponses) = playlistItemsCall.totalItemsToFetch.n

\* mostRecentItemsCount was set to a positive number.
PositiveItemCount ==
  /\ playlistItemsCall # <<>>
  /\ playlistItemsCall.totalItemsToFetch.finite
  /\ playlistItemsCall.totalItemsToFetch.n > 0

\* The items received before position i of the log of the provider.
ItemsBefore(api, i) == ItemsIn(PagesOf(SubSeq(api, 1, i - 1)))

\* C21: with mostRecentItemsCount set to a positive number n, the total
\* number of playlist items retrieved over all page requests never exceeds
\* n: every page request asks for at most min(50, n minus the items already
\* received).
C21_NeverMoreThanItemCount ==
  PositiveItemCount =>
    LET api == playlistItemsApi
        n == playlistItemsCall.totalItemsToFetch.n
    IN /\ ItemsIn(PagesOf(api)) <= n
       /\ ItemsIn(playlistItemListResponses) <= n
       /\ \A i \in 1..Len(api) :
            api[i].event = "request" =>
              /\ api[i].maxResults <= MAX_YOUTUBE_RESULTS
              /\ api[i].maxResults <= n - ItemsBefore(api, i)

\* Of 51 items asked for, a first page brought 50 and the second request
\* asked for the one that was left, and got it.
C21_Witness ==
  /\ Paginated
  /\ PositiveItemCount
  /\ playlistItemsCall.totalItemsToFetch.n = MAX_YOUTUBE_RESULTS + 1
  /\ Len(playlistItemListResponses) = 2
  /\ playlistItemListResponses[1].items = MAX_YOUTUBE_RESULTS
  /\ playlistItemsApi[3].event = "request"
  /\ playlistItemsApi[3].maxResults = 1
  /\ playlistItemListResponses[2].items = 1

\* The pages of the run are all the pages of the playlist.
AllItemsRetrieved ==
  /\ playlistItemListResponses # <<>>
  /\ playlistItemListResponses[Len(playlistItemListResponses)].nextPageToken
       = NoPageToken

\* C22, as stated: a negative or otherwise invalid mostRecentItemsCount is
\* ignored: the run then retrieves all items of the playlist, exactly as
\* when no value is provided.
C22_Original ==
  (Paginated /\ ~PageFetchFailed /\ ~PositiveItemCount) => AllItemsRetrieved

(***************************************************************************)
(* The thumbnail cascade: downloadThumbnailFile of part_017, called as in *)
(* part_021:560-572.                                                       *)
(*                                                                         *)
(* pc is "fetch" while the request of a call of _downloadThumbnailFile is *)
(* in flight and "thumbnailSettled" once the promise of                    *)
(* downloadThumbnailFile has settled and the handlers of the caller ran.   *)
(* The candidate urls of a video are 1, 2, ...; RedirectedUrl is a url     *)
(* that is no candidate.  The body of a response is named by the url that  *)
(* served it.                                                              *)
(***************************************************************************)
\* The largest number of thumbnail urls of a video.
MaxUrls == 3

\* The provider of the thumbnails answers at most MaxRedirects requests for
\* one video with a status of the 300s.
MaxRedirects == 2

RedirectedUrl == 0

\* res.status values, around the limits the code tests.
Statuses == {200, 299, 300, 302, 399, 400, 404, 499, 500}

\* `res.ok`
Ok(status) == status >= 200 /\ status <= 299

ThumbnailUrls(n) == [i \in 1..n |-> i]

\* The arguments of a call of _downloadThumbnailFile; redirectedUrl is
\* undefined or <<url>>.
DownloadThumbnailCall(urls, index, redirectedUrl) ==
  [urls |-> urls, index |-> index, redirectedUrl |-> redirectedUrl]

\* `index >= urls.length`: the call throws before any request.
NoUrlLeft(call) == call.index >= Len(call.urls)

\* `redirectedUrl ?? urls[index]!`
UrlOf(call) ==
  IF call.redirectedUrl # undefined
    THEN call.redirectedUrl[1]
    ELSE call.urls[call.index + 1]

\* A variant that gives up on a redirect.
DownloadThumbnailThenFailingOnRedirect(call, res) ==
  IF res.status >= 400 /\ res.status <= 499
    THEN [call |-> DownloadThumbnailCall(call.urls, call.index + 1,
                                         undefined),
          status |-> "pending"]
  ELSE IF ~Ok(res.status)
    THEN [status |-> "rejected",
          reason |-> [url |-> UrlOf(call), status |-> res.status,
                      type |-> "thumbnailDownload"]]
  ELSE [status |-> "Bun.write", file |-> res.body]

\* A variant that moves to the next url on a redirect.
DownloadThumbnailThenSkippingRedirect(call, res) ==
  IF res.status >= 300 /\ res.status <= 499
    THEN [call |-> DownloadThumbnailCall(call.urls, call.index + 1,
                                         undefined),
          status |-> "pending"]
  ELSE IF ~Ok(res.status)
    THEN [status |-> "rejected",
          reason |-> [url |-> UrlOf(call), status |-> res.status,
                      type |-> "thumbnailDownload"]]
  ELSE [status |-> "Bun.write", file |-> res.body]

\* The `.then` of the fetch of a call, up to its `await`: the recursive call
\* to make, the failure thrown, or the write of the response to the
\* thumbnail file, which is awaited.
DownloadThumbnailThen(call, res) ==
  IF res.status >= 400 /\ res.status <= 499
    THEN [call |-> DownloadThumbnailCall(call.urls, call.index + 1,
                                         undefined),
          status |-> "pending"]
  ELSE IF res.status >= 300 /\ res.status <= 399
    THEN [call |-> DownloadThumbnailCall(call.urls, call.index, <<res.url>>),
          status |-> "pending"]
  ELSE IF ~Ok(res.status)
    THEN [status |-> "rejected",
          reason |-> [url |-> UrlOf(call), status |-> res.status,
                      type |-> "thumbnailDownload"]]
  ELSE [status |-> "Bun.write", file |-> res.body]

\* The rest of the `.then` (part_017:831-843), when the write has ended:
\* how the promise of the call settles.  writeOk: Bun.write did not throw.
DownloadThumbnailWritten(file, writeOk) ==
  IF writeOk
    THEN [status |-> "fulfilled", file |-> file]
    ELSE [status |-> "rejected",
          reason |-> [type |-> "Bun.write", file |-> "thumbnail.jpg"]]

\* The start of a call of _downloadThumbnailFile: it throws when no url is
\* left, and sends its request otherwise.
DownloadThumbnailStart(call) ==
  IF NoUrlLeft(call)
    THEN [status |-> "rejected",
          reason |-> [type |-> "thumbnailUrlNotAvailable",
                      urls |-> call.urls]]
    ELSE [call |-> call, status |-> "pending"]

\* A response and the call it makes, if it makes one.
DownloadThumbnailStep(call, res) ==
  LET then == DownloadThumbnailThen(call, res)
  IN IF then.status = "pending"
       THEN DownloadThumbnailStart(then.call)
       ELSE then

\* The request of a call, as the provider of the thumbnails sees it.
FetchRequest(call) ==
  [url |-> UrlOf(call), event |-> "request", index |-> call.index]

\* The responses the provider can give to a request for `url`: any status;
\* res.url is the url requested or, where a redirect took place or is asked
\* for, RedirectedUrl.
IsFetchResponse(url, res) ==
  /\ res.status \in Statuses
  /\ res.url \in {url, RedirectedUrl}
  /\ res.status >= 400 => res.url = url
  /\ res.body = res.url

\* The number of responses with a status of the 300s.
Redirects(fetches) ==
  Len(SelectSeq(fetches, LAMBDA e : /\ e.event = "response"
                                    /\ e.status >= 300 /\ e.status <= 399))

\* The promise of downloadThumbnailFile settles, and the `.then` or the
\* `.catch` of part_021:566-571 runs.
AwaitDownloadThumbnailFile(settled) ==
  IF settled.status = "fulfilled"
    THEN /\ thumbnailFile' = <<settled.file>>
         /\ downloadCount' =
              [downloadCount EXCEPT !.thumbnail = downloadCount.thumbnail + 1]
         /\ failures' = failures
    ELSE /\ failures' = Append(failures, settled.reason)
         /\ UNCHANGED <<thumbnailFile, downloadCount>>

\* A unit of work calls downloadThumbnailFile for a video with n thumbnail
\* urls and no thumbnail file.
DownloadThumbnailFile ==
  /\ pc = "idle"
  /\ \E n \in 0..MaxUrls :
       LET call == DownloadThumbnailCall(ThumbnailUrls(n), 0, undefined)
           start == DownloadThumbnailStart(call)
       IN /\ thumbnailCall' = call
          /\ IF start.status = "pending"
               THEN /\ thumbnailFetches' = <<FetchRequest(call)>>
                    /\ pc' = "fetch"
                    /\ UNCHANGED <<thumbnailFile, downloadCount, failures>>
               ELSE /\ thumbnailFetches' = <<>>
                    /\ AwaitDownloadThumbnailFile(start)
                    /\ pc' = "thumbnailSettled"
  /\ UNCHANGED notThumbnailVars

\* The provider answers the request in flight, and the `.then` of the fetch
\* runs up to its `await` or to its end.
FetchFulfilled(res) ==
  /\ pc = "fetch"
  /\ IsFetchResponse(UrlOf(thumbnailCall), res)
  /\ (res.status >= 300 /\ res.status <= 399) =>
       Redirects(thumbnailFetches) < MaxRedirects
  /\ LET then == DownloadThumbnailThen(thumbnailCall, res)
         step == DownloadThumbnailStep(thumbnailCall, res)
     IN CASE step.status = "pending" ->
               /\ thumbnailCall' = step.call
               /\ thumbnailFetches' =
                    thumbnailFetches \o <<res, FetchRequest(step.call)>>
               /\ UNCHANGED <<pc, thumbnailFile, downloadCount, failures>>
          [] step.status = "Bun.write" ->
               /\ thumbnailFetches' = Append(thumbnailFetches, res)
               /\ pc' = "Bun.write"
               /\ UNCHANGED <<thumbnailCall, thumbnailFile, downloadCount,
                              failures>>
          [] step.status = "rejected" ->
               /\ thumbnailCall' =
                    IF then.status = "pending" THEN then.call ELSE thumbnailCall
               /\ thumbnailFetches' = Append(thumbnailFetches, res)
               /\ AwaitDownloadThumbnailFile(step)
               /\ pc' = "thumbnailSettled"
  /\ UNCHANGED notThumbnailVars

\* The write of the response to the thumbnail file ends (part_017:831-843),
\* and the promise of downloadThumbnailFile settles.
ThumbnailWritten(writeOk) ==
  /\ pc = "Bun.write"
  /\ LET res == thumbnailFetches[Len(thumbnailFetches)]
     IN /\ thumbnailFetches' =
             Append(thumbnailFetches, [event |-> "write", ok |-> writeOk])
        /\ AwaitDownloadThumbnailFile(DownloadThumbnailWritten(res.body,
                                                               writeOk))
  /\ pc' = "thumbnailSettled"
  /\ UNCHANGED thumbnailCall
  /\ UNCHANGED notThumbnailVars

\* The request in flight fails: fetch rejects, and so does the promise of
\* downloadThumbnailFile, with the error of fetch.
FetchRejected ==
  /\ pc = "fetch"
  /\ thumbnailFetches' = Append(thumbnailFetches, [event |-> "error"])
  /\ AwaitDownloadThumbnailFile([status |-> "rejected",
                                 reason |-> [type |-> "TypeError"]])
  /\ pc' = "thumbnailSettled"
  /\ UNCHANGED thumbnailCall
  /\ UNCHANGED notThumbnailVars

ThumbnailNext ==
  \/ DownloadThumbnailFile
  \/ \E status \in Statuses, resUrl \in {RedirectedUrl} \cup (1..MaxUrls) :
       FetchFulfilled([url |-> resUrl, event |-> "response",
                       status |-> status, body |-> resUrl])
  \/ \E writeOk \in BOOLEAN : ThumbnailWritten(writeOk)
  \/ FetchRejected

ThumbnailSpec == Init /\ [][ThumbnailNext]_vars

(***************************************************************************)
(* Properties of the thumbnail cascade.                                    *)
(***************************************************************************)
ThumbnailSettled == pc = "thumbnailSettled"

Is4xx(status) == status >= 400 /\ status <= 499
Is3xx(status) == status >= 300 /\ status <= 399

\* The attempt ended at event i with exactly this failure recorded, and
\* without a thumbnail.
EndsInFailure(i, type) ==
  /\ i = Len(thumbnailFetches)
  /\ ThumbnailSettled
  /\ Len(failures) = 1
  /\ failures[1].type = type
  /\ thumbnailFile = <<>>
  /\ downloadCount.thumbnail = 0

\* Event i + 1 is a request for `url` in slot `index`.
ThenRequests(i, index, url) ==
  /\ i < Len(thumbnailFetches)
  /\ thumbnailFetches[i + 1].event = "request"
  /\ thumbnailFetches[i + 1].index = index
  /\ thumbnailFetches[i + 1].url = url

\* C17: in the thumbnail cascade a response of the 400s is followed by a
\* request for the next candidate url (or, when none is left, ends the
\* attempt with a failure), a response of the 300s by a request for res.url
\* in the same slot, any other status that is not a success ends the attempt
\* with a thumbnailDownload failure, a failed write ends it with a Bun.write
\* failure, and the slot index never decreases.
C17_ThumbnailCascade ==
  LET fetches == thumbnailFetches
      urls == thumbnailCall.urls
  IN
  \A i \in 2..Len(fetches) :
    LET req == fetches[i - 1]
        res == fetches[i]
    IN
    /\ res.event = "response" =>
         /\ req.event = "request"
         /\ Is4xx(res.status) =>
              IF req.index + 1 < Len(urls)
                THEN ThenRequests(i, req.index + 1, urls[req.index + 2])
                ELSE EndsInFailure(i, "thumbnailUrlNotAvailable")
         /\ Is3xx(res.status) => ThenRequests(i, req.index, res.url)
         /\ (~Is4xx(res.status) /\ ~Is3xx(res.status) /\ ~Ok(res.status)) =>
              /\ EndsInFailure(i, "thumbnailDownload")
              /\ failures[1].url = req.url
              /\ failures[1].status = res.status
         /\ Ok(res.status) =>
              IF pc = "Bun.write"
                THEN i = Len(fetches)
                ELSE /\ i + 1 = Len(fetches)
                     /\ fetches[i + 1].event = "write"
    /\ (res.event = "write" /\ ~res.ok) => EndsInFailure(i, "Bun.write")
    /\ (res.event = "request" /\ i > 2) => res.index >= fetches[i - 2].index

\* A 400 in slot 0, a 302 in slot 1, then a 500 from the redirect target.
C17_Witness ==
  /\ ThumbnailSettled
  /\ Len(thumbnailFetches) = 6
  /\ \A i \in {2, 4, 6} : thumbnailFetches[i].event = "response"
  /\ thumbnailFetches[2].status = 400
  /\ thumbnailFetches[4].status = 302
  /\ thumbnailFetches[5].index = 1
  /\ thumbnailFetches[5].url = RedirectedUrl
  /\ thumbnailFetches[6].status = 500
  /\ failures # <<>>

\* The provider of [bad404, redirectTo(valid), valid2]: url 1 answers 404,
\* url 2 redirects to RedirectedUrl, which the response shows either as a
\* status of the 300s with res.url the target, or, where fetch followed the
\* redirect itself, as the target's answer; RedirectedUrl and url 3 answer
\* 200.
AnswersAsInC18(req, res) ==
  /\ req.url = 1 => res.status = 404 /\ res.url = 1
  /\ req.url = 2 =>
       /\ res.url = RedirectedUrl
       /\ res.status = 302 \/ res.status = 200
  /\ req.url = RedirectedUrl => res.status = 200 /\ res.url = RedirectedUrl
  /\ req.url = 3 => res.status = 200 /\ res.url = 3

\* The attempt for [bad404, redirectTo(valid), valid2] has ended, with
\* nothing failing on the way but what the locators say.
ScenarioC18 ==
  /\ ThumbnailSettled
  /\ thumbnailCall.urls = ThumbnailUrls(3)
  /\ \A i \in 1..Len(thumbnailFetches) :
       LET e == thumbnailFetches[i]
       IN /\ e.event # "error"
          /\ e.event = "write" => e.ok
          /\ e.event = "response" =>
               AnswersAsInC18(thumbnailFetches[i - 1], e)

\* C18: for the locators [bad404, redirectTo(valid), valid2] the attempt
\* ends in success, the thumbnail file holds what the redirect target
\* served, and valid2 is never requested.
C18_RedirectTargetIsUsed ==
  ScenarioC18 =>
    /\ thumbnailFile = <<RedirectedUrl>>
    /\ downloadCount.thumbnail = 1
    /\ failures = <<>>
    /\ \A i \in 1..Len(thumbnailFetches) :
         thumbnailFetches[i].event = "request" => thumbnailFetches[i].url # 3

\* The scenario, with the redirect handled by the retry of the same slot.
C18_Witness ==
  /\ ScenarioC18
  /\ Len(thumbnailFetches) = 7
  /\ thumbnailFetches[4].event = "response"
  /\ thumbnailFetches[4].status = 302
  /\ thumbnailFetches[5].index = 1
  /\ thumbnailFetches[5].url = RedirectedUrl
  /\ thumbnailFile = <<RedirectedUrl>>

(***************************************************************************)
(* STEP 2 of part_021, continued: the details of the videos, fetched in    *)
(* waves of calls of yt.videos.list.                                       *)
(*                                                                         *)
(* pc is "videos.list" from the call of fetchIdChunks.reduce until its     *)
(* promise is fulfilled, and "durationsObj" after that.  The ids of the    *)
(* available videos of the playlist are 1, 2, ...                          *)
(***************************************************************************)
\* The largest value of maxConcurrentYouTubeCalls and maxConcurrentYtdlpCalls.
MaxConcurrency == 2

\* The largest number of calls of yt.videos.list the ids of one run need.
MaxBatches == 3

Min(a, b) == IF a <= b THEN a ELSE b

\* `arr.slice(i * size, i * size + size)` for i = 0 .. ceil(length / size) - 1
ChunkArray(arr, size) ==
  [i \in 1..((Len(arr) + size - 1) \div size) |->
     SubSeq(arr, (i - 1) * size + 1, Min(i * size, Len(arr)))]

RECURSIVE Flatten(_)
Flatten(arrays) ==
  IF arrays = <<>> THEN <<>> ELSE Head(arrays) \o Flatten(Tail(arrays))

\* The numbers of available videos of a playlist in the model: none, or
\* what fills 1 to MaxBatches calls with a last call of one id or a full one.
VideoCounts ==
  {0} \cup {(b - 1) * MAX_YOUTUBE_RESULTS + r :
              b \in 1..MaxBatches, r \in {1, MAX_YOUTUBE_RESULTS}}

VideoIdsToFetch(n) == [i \in 1..n |-> i]

\* The two chunkings of part_021:300-324.
FetchIdChunks(videoIdsToFetch, maxConcurrentYouTubeCalls) ==
  ChunkArray(ChunkArray(videoIdsToFetch, MAX_YOUTUBE_RESULTS),
             maxConcurrentYouTubeCalls)

\* An element of videoListResponses: the response to a call for `ids`,
\* which has an item for each id, or the null stored for a failed call.
VideoListResponse(ids) == [items |-> ids, isNull |-> FALSE]
NullResponse == [items |-> <<>>, isNull |-> TRUE]

\* A variant that reports the ids of the first call of the wave.
VideosListApiFailureOfFirst(idArrays, resultIndex) ==
  [type |-> "videosListApi", ids |-> idArrays[1]]

\* The failure pushed for the rejected call number resultIndex of a wave.
VideosListApiFailure(idArrays, resultIndex) ==
  [type |-> "videosListApi", ids |-> idArrays[resultIndex]]

Settled(call) == call \in {"fulfilled", "rejected"}

\* The number of elements the reduce has accumulated when the first w waves
\* have been collected.
CollectedAfter(chunks, w) == Len(Flatten(SubSeq(chunks, 1, w)))

\* A variant that starts every wave at once.
PreviousResultsReadyAtOnce(chunks, previousResults, w) == TRUE

\* `promise.then(previousResults => ...)`: the callback that issues wave w
\* runs when the promise of the waves before it is fulfilled.
PreviousResultsReady(chunks, previousResults, w) ==
  Len(previousResults) = CollectedAfter(chunks, w - 1)

\* The `results.forEach` of part_021:346-363 from result number i on:
\* [results, failures] after it.
RECURSIVE ForEachResult(_, _, _, _)
ForEachResult(acc, idArrays, calls, i) ==
  IF i > Len(calls) THEN acc
  ELSE ForEachResult(
         IF calls[i] = "fulfilled"
           THEN [failures |-> acc.failures,
                 results |-> Append(acc.results,
                                    VideoListResponse(idArrays[i]))]
           ELSE [failures |-> Append(acc.failures,
                                     VideosListApiFailure(idArrays, i)),
                 results |-> Append(acc.results, NullResponse)],
         idArrays, calls, i + 1)

\* The ids that get a duration: `durationsObj` of part_021:385-415, for
\* responses whose items all parse and are known.
RECURSIVE DurationIds(_)
DurationIds(responses) ==
  IF responses = <<>> THEN {}
  ELSE {Head(responses).items[i] : i \in 1..Len(Head(responses).items)}
         \cup DurationIds(Tail(responses))

\* downloadYouTubePlaylist chunks the ids and calls fetchIdChunks.reduce.
FetchVideoDetails ==
  /\ pc = "idle"
  /\ \E n \in VideoCounts, maxConcurrentYouTubeCalls \in 1..MaxConcurrency :
       LET chunks == FetchIdChunks(VideoIdsToFetch(n),
                                   maxConcurrentYouTubeCalls)
       IN /\ options' =
               [maxConcurrentYouTubeCalls |-> maxConcurrentYouTubeCalls]
          /\ fetchIdChunks' = chunks
          /\ videosListCalls' =
               [w \in 1..Len(chunks) |->
                  [b \in 1..Len(chunks[w]) |-> "unissued"]]
          /\ pc' = IF chunks = <<>> THEN "durationsObj" ELSE "videos.list"
  /\ UNCHANGED <<videosListApi, videoListResponses, youTubeFetchCount,
                 failures>>
  /\ UNCHANGED notDetailVars

\* The callback of the reduce for wave w runs: it calls yt.videos.list for
\* each array of ids of the wave.
IssueVideosListWave(w) ==
  /\ pc = "videos.list"
  /\ w \in 1..Len(fetchIdChunks)
  /\ \A b \in 1..Len(videosListCalls[w]) : videosListCalls[w][b] = "unissued"
  /\ PreviousResultsReady(fetchIdChunks, videoListResponses, w)
  /\ videosListCalls' =
       [videosListCalls EXCEPT ![w] =
          [b \in 1..Len(videosListCalls[w]) |-> "pending"]]
  /\ youTubeFetchCount' = youTubeFetchCount + Len(fetchIdChunks[w])
  /\ videosListApi' =
       videosListApi \o
         [b \in 1..Len(fetchIdChunks[w]) |->
            [wave |-> w, call |-> b, event |-> "request",
             ids |-> fetchIdChunks[w][b]]]
  /\ UNCHANGED <<pc, options, fetchIdChunks, videoListResponses, failures>>
  /\ UNCHANGED notDetailVars

\* The provider answers call b of wave w, or the call fails.
VideosListSettles(w, b, fulfilled) ==
  /\ pc = "videos.list"
  /\ w \in 1..Len(videosListCalls)
  /\ b \in 1..Len(videosListCalls[w])
  /\ videosListCalls[w][b] = "pending"
  /\ videosListCalls' =
       [videosListCalls EXCEPT ![w][b] =
          IF fulfilled THEN "fulfilled" ELSE "rejected"]
  /\ videosListApi' =
       Append(videosListApi,
              [wave |-> w, call |-> b,
               event |-> IF fulfilled THEN "response" ELSE "error",
               ids |-> fetchIdChunks[w][b]])
  /\ UNCHANGED <<pc, options, fetchIdChunks, videoListResponses,
                 youTubeFetchCount, failures>>
  /\ UNCHANGED notDetailVars

\* Every call of wave w has settled: the `.then` of Promise.allSettled runs
\* and, after the last wave, the `await` of part_021:331 returns.
CollectVideosListWave(w) ==
  /\ pc = "videos.list"
  /\ w \in 1..Len(fetchIdChunks)
  /\ Len(videoListResponses) = CollectedAfter(fetchIdChunks, w - 1)
  /\ \A b \in 1..Len(videosListCalls[w]) : Settled(videosListCalls[w][b])
  /\ LET r == ForEachResult([failures |-> failures, results |-> <<>>],
                            fetchIdChunks[w], videosListCalls[w], 1)
     IN /\ videoListResponses' = videoListResponses \o r.results
        /\ failures' = r.failures
  /\ pc' = IF w = Len(fetchIdChunks) THEN "durationsObj" ELSE pc
  /\ UNCHANGED <<options, fetchIdChunks, videosListCalls, videosListApi,
                 youTubeFetchCount>>
  /\ UNCHANGED notDetailVars

(***************************************************************************)
(* STEP 4 of part_021: the downloads, run in waves of units of work.       *)
(*                                                                         *)
(* pc is "yt-dlp" from the call of promiseFxnBatches.reduce until its      *)
(* promise is fulfilled, and "return" after that.  The ids to download are *)
(* 1, 2, ...; unit u is downloadPromiseFxns[u - 1], for id u.  Of a unit,  *)
(* `thumbnail` is "none" until downloadThumbnailFile is called, "fetch"    *)
(* while a request of it is in flight, then "fulfilled" or "rejected";     *)
(* `ytdlp` is "none" until the yt-dlp command is started, "running" until  *)
(* its `.then` or `.catch` has run, then the outcome: "video", or the type *)
(* of the failure pushed, "shellRejects" standing for the generic failure  *)
(* of a rejected promise of the shell; `value` is what the promise of the  *)
(* unit was fulfilled with.                                                *)
(***************************************************************************)
\* The largest number of ids to download in one run.
MaxUnits == 2

DownloadTypes == {"audio", "video", "both"}

\* How many thumbnail urls the videos of a run have in the model.
UnitUrlCounts == {0, 1}

\* What the provider of the thumbnails answers to the request of a unit.
UnitStatuses == {200, 404}

\* How a yt-dlp command ends: the promise of the shell is rejected; a
\* non-zero exit code; exit code 0 with a stdout that is no JSON, that
\* fails YtDlpJsonSchema, or that passes it.  After output that passes,
\* the audio file is in the video directory to be moved or it is not
\* ("renameSync": fs.renameSync throws where it is called), and ffmpeg
\* reports a loudness of the file or it does not ("noLufs").
YtDlpResults ==
  {"shellRejects", "exitCode", "notJson", "notSchema", "renameSync", "lufs",
   "noLufs"}

NullVideo == [id |-> 0, audioFileExtension |-> null,
              videoFileExtension |-> null, isNull |-> TRUE, lufs |-> null]

\* The video a unit returns, as far as the download fills it in.  The
\* first of the requested downloads is the audio where audio is extracted,
\* and the video otherwise.
UnitVideo(id, downloadType, isLufsValid) ==
  [id |-> id,
   audioFileExtension |-> IF downloadType = "video" THEN "mp4" ELSE "mp3",
   videoFileExtension |-> IF downloadType = "audio" THEN null ELSE "mp4",
   isNull |-> FALSE,
   lufs |-> IF isLufsValid THEN "lufs" ELSE null]

\* `chunkArray(downloadPromiseFxns, maxConcurrentYtdlpCalls)`, on the numbers
\* of the units; a variant that runs every unit in one batch.
PromiseFxnBatchesOfOne(count, maxConcurrentYtdlpCalls) ==
  ChunkArray([u \in 1..count |-> u], count + 1)

PromiseFxnBatches(count, maxConcurrentYtdlpCalls) ==
  ChunkArray([u \in 1..count |-> u], maxConcurrentYtdlpCalls)

\* The unit for `id` before it is run.
PendingUnit(id, known, urls) ==
  [id |-> id, thumbnail |-> "none", call |-> <<>>, value |-> NullVideo,
   urls |-> urls, known |-> known, ytdlp |-> "none"]

\* The promise of the unit has settled.
Terminal(unit) == unit.ytdlp \notin {"none", "running"}

\* The unit has been started and its promise has not settled.
InFlight(unit) ==
  ~Terminal(unit) /\ (unit.thumbnail # "none" \/ unit.ytdlp # "none")

\* A variant in which a unit whose video has no thumbnail url stops at the
\* failure of downloadThumbnailFile.
StartUnitStoppingAtThumbnailFailure(unit, downloadThumbnails) ==
  IF ~unit.known
    THEN [failures |-> <<[id |-> unit.id, type |-> "partialVideoNotFound"]>>,
          unit |-> [unit EXCEPT !.ytdlp = "partialVideoNotFound"],
          late |-> <<>>]
  ELSE IF ~downloadThumbnails
    THEN [failures |-> <<>>,
          unit |-> [unit EXCEPT !.ytdlp = "running"], late |-> <<>>]
  ELSE LET call == DownloadThumbnailCall(unit.urls, 0, undefined)
           start == DownloadThumbnailStart(call)
       IN IF start.status = "pending"
            THEN [failures |-> <<>>,
                  unit |-> [unit EXCEPT !.thumbnail = "fetch",
                                        !.call = call],
                  late |-> <<>>]
            ELSE [failures |-> <<>>,
                  unit |-> [unit EXCEPT !.thumbnail = "rejected",
                                        !.ytdlp = "partialVideoNotFound"],
                  late |-> <<start.reason>>]

\* A variant that starts yt-dlp without awaiting downloadThumbnailFile.
StartUnitNotAwaitingThumbnail(unit, downloadThumbnails) ==
  IF ~unit.known
    THEN [failures |-> <<[id |-> unit.id, type |-> "partialVideoNotFound"]>>,
          unit |-> [unit EXCEPT !.ytdlp = "partialVideoNotFound"],
          late |-> <<>>]
  ELSE IF ~downloadThumbnails \/ unit.urls = <<>>
    THEN [failures |-> <<>>,
          unit |-> [unit EXCEPT !.ytdlp = "running"], late |-> <<>>]
  ELSE [failures |-> <<>>,
        unit |-> [unit EXCEPT !.thumbnail = "fetch",
                              !.call = DownloadThumbnailCall(unit.urls, 0,
                                                             undefined),
                              !.ytdlp = "running"], late |-> <<>>]

\* A variant that collects no result.
SuccessfulResultsNone(unitStates, batch, i) == <<>>

\* A variant that collects the first successful result of a batch only.
SuccessfulResultsFirstOnly(unitStates, batch, i) ==
  LET successful == SelectSeq(batch,
                              LAMBDA u : ~unitStates[u].value.isNull)
  IN IF successful = <<>> \/ i > 1 THEN <<>>
     ELSE <<unitStates[successful[1]].value>>

\* A variant that accumulates the results of a batch last to first.
RECURSIVE SuccessfulResultsLastFirst(_, _, _)
SuccessfulResultsLastFirst(unitStates, batch, i) ==
  IF i > Len(batch) THEN <<>>
  ELSE SuccessfulResultsLastFirst(unitStates, batch, i + 1)
       \o (IF unitStates[batch[i]].value.isNull
             THEN <<>>
             ELSE <<unitStates[batch[i]].value>>)

\* The synchronous part of a unit, up to its first request or command, with
\* the microtasks that follow it: [unit, failures, late], where `failures`
\* are pushed during the `map` of part_021:726 and `late` after it.
StartUnit(unit, downloadThumbnails) ==
  IF ~unit.known
    THEN [failures |-> <<[id |-> unit.id, type |-> "partialVideoNotFound"]>>,
          unit |-> [unit EXCEPT !.ytdlp = "partialVideoNotFound"],
          late |-> <<>>]
  ELSE IF ~downloadThumbnails
    THEN [failures |-> <<>>,
          unit |-> [unit EXCEPT !.ytdlp = "running"], late |-> <<>>]
  ELSE LET call == DownloadThumbnailCall(unit.urls, 0, undefined)
           start == DownloadThumbnailStart(call)
       IN IF start.status = "pending"
            THEN [failures |-> <<>>,
                  unit |-> [unit EXCEPT !.thumbnail = "fetch",
                                        !.call = call],
                  late |-> <<>>]
            ELSE [failures |-> <<>>,
                  unit |-> [unit EXCEPT !.thumbnail = "rejected",
                                        !.ytdlp = "running"],
                  late |-> <<start.reason>>]

\* `promiseFxnBatch.map(f => f())` from unit number i of the batch on.
RECURSIVE StartBatch(_, _, _, _)
StartBatch(acc, batch, i, downloadThumbnails) ==
  IF i > Len(batch) THEN acc
  ELSE LET u == batch[i]
           s == StartUnit(acc.units[u], downloadThumbnails)
       IN StartBatch([failures |-> acc.failures \o s.failures,
                      units |-> [acc.units EXCEPT ![u] = s.unit],
                      completions |->
                        IF Terminal(s.unit)
                          THEN Append(acc.completions, u)
                          ELSE acc.completions,
                      late |-> acc.late \o s.late],
                     batch, i + 1, downloadThumbnails)

\* The failure the `.catch` of a unit pushes (part_021:679-688): `error`
\* names the call that threw or the promise that was rejected.
GenericUnitFailure(id, error) ==
  [id |-> id, error |-> error, type |-> "generic",
   context |-> "downloadPromiseFxns"]

\* A variant that returns the partial video after a failure.
YtDlpThenNotReturningNull(unit, downloadType, result) ==
  LET exitedWithZero == result \notin {"shellRejects", "exitCode"}
      audio == IF downloadType \in {"audio", "both"} /\ exitedWithZero
                 THEN 1 ELSE 0
      video == IF downloadType \in {"video", "both"} /\ exitedWithZero
                 THEN 1 ELSE 0
      outcome ==
        CASE result = "shellRejects" ->
               [failures |-> <<GenericUnitFailure(unit.id, "shellPromise")>>,
                ytdlp |-> "shellRejects"]
          [] result = "exitCode" ->
               [failures |-> <<[url |-> unit.id, type |-> "ytdlpFailure"]>>,
                ytdlp |-> "ytdlpFailure"]
          [] result = "notJson" ->
               [failures |-> <<GenericUnitFailure(unit.id, "JSON.parse")>>,
                ytdlp |-> "generic"]
          [] result = "notSchema" ->
               [failures |-> <<[type |-> "schemaParse",
                                schemaName |-> "YtDlpJsonSchema"]>>,
                ytdlp |-> "schemaParse"]
          [] result = "renameSync" /\ downloadType = "both" ->
               [failures |-> <<GenericUnitFailure(unit.id, "fs.renameSync")>>,
                ytdlp |-> "generic"]
          [] result = "noLufs" ->
               [failures |-> <<[type |-> "lufs", filePath |-> unit.id]>>,
                ytdlp |-> "video"]
          [] OTHER -> [failures |-> <<>>, ytdlp |-> "video"]
  IN [failures |-> outcome.failures,
      video |-> video, audio |-> audio,
      unit |-> [unit EXCEPT !.ytdlp = outcome.ytdlp,
                            !.value =
                              UnitVideo(unit.id, downloadType,
                                        result # "noLufs")]]

\* The `.then` and the `.catch` of the yt-dlp command of a unit
\* (part_021:602-688): the unit after it, the failures pushed, and the
\* increments of downloadCount.audio and downloadCount.video.  A rejected
\* promise of the shell goes to the `.catch` and nothing is counted; what
\* JSON.parse and fs.renameSync throw goes to the `.catch` after the
\* counts were incremented.  fs.renameSync is called for "both" alone;
\* getLufsForFile catches what it throws (part_017:848-865).
YtDlpThen(unit, downloadType, result) ==
  LET exitedWithZero == result \notin {"shellRejects", "exitCode"}
      audio == IF downloadType \in {"audio", "both"} /\ exitedWithZero
                 THEN 1 ELSE 0
      video == IF downloadType \in {"video", "both"} /\ exitedWithZero
                 THEN 1 ELSE 0
      outcome ==
        CASE result = "shellRejects" ->
               [failures |-> <<GenericUnitFailure(unit.id, "shellPromise")>>,
                ytdlp |-> "shellRejects"]
          [] result = "exitCode" ->
               [failures |-> <<[url |-> unit.id, type |-> "ytdlpFailure"]>>,
                ytdlp |-> "ytdlpFailure"]
          [] result = "notJson" ->
               [failures |-> <<GenericUnitFailure(unit.id, "JSON.parse")>>,
                ytdlp |-> "generic"]
          [] result = "notSchema" ->
               [failures |-> <<[type |-> "schemaParse",
                                schemaName |-> "YtDlpJsonSchema"]>>,
                ytdlp |-> "schemaParse"]
          [] result = "renameSync" /\ downloadType = "both" ->
               [failures |-> <<GenericUnitFailure(unit.id, "fs.renameSync")>>,
                ytdlp |-> "generic"]
          [] result = "noLufs" ->
               [failures |-> <<[type |-> "lufs", filePath |-> unit.id]>>,
                ytdlp |-> "video"]
          [] OTHER -> [failures |-> <<>>, ytdlp |-> "video"]
  IN [failures |-> outcome.failures,
      video |-> video, audio |-> audio,
      unit |-> [unit EXCEPT !.ytdlp = outcome.ytdlp,
                            !.value =
                              IF outcome.ytdlp = "video"
                                THEN UnitVideo(unit.id, downloadType,
                                               result # "noLufs")
                                ELSE NullVideo]]

\* The `newResults.forEach` of part_021:730-735 from result number i on.
RECURSIVE SuccessfulResults(_, _, _)
SuccessfulResults(unitStates, batch, i) ==
  IF i > Len(batch) THEN <<>>
  ELSE (IF unitStates[batch[i]].value.isNull
          THEN <<>>
          ELSE <<unitStates[batch[i]].value>>)
       \o SuccessfulResults(unitStates, batch, i + 1)

\* The options of the runs: every download type and number of concurrent
\* yt-dlp calls without thumbnails, and both kinds of file with thumbnails.
OptionsOfWaves ==
  {[downloadType |-> downloadType, maxConcurrentYtdlpCalls |-> maxConcurrentYtdlpCalls,
    downloadThumbnails |-> FALSE] :
     downloadType \in DownloadTypes,
     maxConcurrentYtdlpCalls \in 1..MaxConcurrency}
  \cup {[downloadType |-> "both", maxConcurrentYtdlpCalls |-> maxConcurrentYtdlpCalls,
          downloadThumbnails |-> TRUE] :
          maxConcurrentYtdlpCalls \in 1..MaxConcurrency}

\* The units of a run and the batch they are run in first.
StartDownloads ==
  /\ pc = "idle"
  /\ \E count \in 0..MaxUnits, opts \in OptionsOfWaves,
        n \in UnitUrlCounts, unknown \in 0..MaxUnits :
       LET pending == [u \in 1..count |->
                         PendingUnit(u, u # unknown, ThumbnailUrls(n))]
           batches == PromiseFxnBatches(count, opts.maxConcurrentYtdlpCalls)
           s == StartBatch([failures |-> failures, units |-> pending,
                            completions |-> <<>>, late |-> <<>>],
                           batches[1], 1, opts.downloadThumbnails)
       IN /\ unknown <= count
          /\ ~opts.downloadThumbnails => n = 0
          /\ options' = opts
          /\ IF count = 0
               THEN /\ pc' = "return"
                    /\ UNCHANGED <<units, wave, completions, failures>>
               ELSE /\ pc' = "yt-dlp"
                    /\ units' = s.units
                    /\ wave' = 1
                    /\ completions' = s.completions
                    /\ failures' = s.failures \o s.late
  /\ UNCHANGED <<videosDownloaded, downloadCount>>
  /\ UNCHANGED notDownloadVars

\* The provider of the thumbnails answers the request of unit u, and the
\* `.then` of the fetch runs up to its `await` or to its end; where
\* downloadThumbnailFile is rejected, the `.catch` of part_021:569-571
\* records the failure and the unit starts its yt-dlp command.
UnitThumbnailResponds(u, status) ==
  /\ pc = "yt-dlp"
  /\ u \in 1..Len(units)
  /\ units[u].thumbnail = "fetch"
  /\ LET call == units[u].call
         res == [url |-> UrlOf(call), event |-> "response",
                 status |-> status, body |-> UrlOf(call)]
         step == DownloadThumbnailStep(call, res)
     IN CASE step.status = "pending" ->
               /\ units' = [units EXCEPT ![u].call = step.call]
               /\ UNCHANGED failures
          [] step.status = "Bun.write" ->
               /\ units' = [units EXCEPT ![u].thumbnail = "Bun.write"]
               /\ UNCHANGED failures
          [] step.status = "rejected" ->
               /\ units' = [units EXCEPT ![u].thumbnail = "rejected",
                                         ![u].ytdlp = "running"]
               /\ failures' = Append(failures, step.reason)
  /\ UNCHANGED <<pc, options, wave, completions, videosDownloaded,
                 downloadCount>>
  /\ UNCHANGED notDownloadVars

\* The write of the thumbnail file of unit u ends: the `.then` or the
\* `.catch` of part_021:566-571 runs, and the unit starts its yt-dlp
\* command.
UnitThumbnailWritten(u, writeOk) ==
  /\ pc = "yt-dlp"
  /\ u \in 1..Len(units)
  /\ units[u].thumbnail = "Bun.write"
  /\ LET settled == DownloadThumbnailWritten(UrlOf(units[u].call), writeOk)
     IN IF settled.status = "fulfilled"
          THEN /\ units' = [units EXCEPT ![u].thumbnail = "fulfilled",
                                         ![u].ytdlp = "running"]
               /\ downloadCount' =
                    [downloadCount EXCEPT
                       !.thumbnail = downloadCount.thumbnail + 1]
               /\ UNCHANGED failures
          ELSE /\ units' = [units EXCEPT ![u].thumbnail = "rejected",
                                         ![u].ytdlp = "running"]
               /\ failures' = Append(failures, settled.reason)
               /\ UNCHANGED downloadCount
  /\ UNCHANGED <<pc, options, wave, completions, videosDownloaded>>
  /\ UNCHANGED notDownloadVars

\* The request of unit u fails: fetch rejects, and so does the promise of
\* downloadThumbnailFile; the `.catch` of part_021:569-571 records the
\* error of fetch and the unit starts its yt-dlp command.
UnitThumbnailFetchRejected(u) ==
  /\ pc = "yt-dlp"
  /\ u \in 1..Len(units)
  /\ units[u].thumbnail = "fetch"
  /\ units' = [units EXCEPT ![u].thumbnail = "rejected",
                            ![u].ytdlp = "running"]
  /\ failures' = Append(failures, [type |-> "TypeError"])
  /\ UNCHANGED <<pc, options, wave, completions, videosDownloaded,
                 downloadCount>>
  /\ UNCHANGED notDownloadVars

\* The yt-dlp command of unit u ends and its `.then` runs
\* (part_021:602-688).
YtDlpExits(u, result) ==
  /\ pc = "yt-dlp"
  /\ u \in 1..Len(units)
  /\ units[u].ytdlp = "running"
  /\ LET then == YtDlpThen(units[u], options.downloadType, result)
     IN /\ units' = [units EXCEPT ![u] = then.unit]
        /\ failures' = failures \o then.failures
        /\ downloadCount' =
             [downloadCount EXCEPT
                !.audio = downloadCount.audio + then.audio,
                !.video = downloadCount.video + then.video]
  /\ completions' = Append(completions, u)
  /\ UNCHANGED <<pc, options, wave, videosDownloaded>>
  /\ UNCHANGED notDownloadVars

\* Every unit of the batch has settled: the `.then` of Promise.allSettled
\* runs, and then the callback of the reduce for the next batch or, after
\* the last batch, the rest of downloadYouTubePlaylist.
CollectBatch ==
  /\ pc = "yt-dlp"
  /\ LET batches == PromiseFxnBatches(Len(units),
                                      options.maxConcurrentYtdlpCalls)
         batch == batches[wave]
     IN /\ \A i \in 1..Len(batch) : Terminal(units[batch[i]])
        /\ videosDownloaded' =
             videosDownloaded \o SuccessfulResults(units, batch, 1)
        /\ IF wave < Len(batches)
             THEN LET s == StartBatch([failures |-> failures,
                                       units |-> units,
                                       completions |-> completions,
                                       late |-> <<>>],
                                      batches[wave + 1], 1,
                                      options.downloadThumbnails)
                  IN /\ units' = s.units
                     /\ failures' = s.failures \o s.late
                     /\ completions' = s.completions
                     /\ wave' = wave + 1
                     /\ UNCHANGED pc
             ELSE /\ pc' = "return"
                  /\ UNCHANGED <<units, failures, completions, wave>>
  /\ UNCHANGED <<options, downloadCount>>
  /\ UNCHANGED notDownloadVars

WavesNext ==
  \/ FetchVideoDetails
  \/ \E w \in 1..MaxBatches : IssueVideosListWave(w)
  \/ \E w \in 1..MaxBatches, b \in 1..MaxConcurrency, fulfilled \in BOOLEAN :
       VideosListSettles(w, b, fulfilled)
  \/ \E w \in 1..MaxBatches : CollectVideosListWave(w)
  \/ StartDownloads
  \/ \E u \in 1..MaxUnits, status \in UnitStatuses :
       UnitThumbnailResponds(u, status)
  \/ \E u \in 1..MaxUnits, writeOk \in BOOLEAN :
       UnitThumbnailWritten(u, writeOk)
  \/ \E u \in 1..MaxUnits : UnitThumbnailFetchRejected(u)
  \/ \E u \in 1..MaxUnits, result \in YtDlpResults : YtDlpExits(u, result)
  \/ CollectBatch

WavesSpec == Init /\ [][WavesNext]_vars


(***************************************************************************)
(* Claims about the waves of downloads and of calls of yt.videos.list.     *)
(***************************************************************************)
\* The run is in STEP 4, or has returned from it.
Downloading == pc \in {"yt-dlp", "return"} /\ units # <<>>

UnitsInFlight == {u \in 1..Len(units) : InFlight(units[u])}

\* C11: with download concurrency limit N and M > N download units, at no
\* point during the run are more than N units in flight at the same time.
C11_BoundedDownloadConcurrency ==
  Downloading =>
    Cardinality(UnitsInFlight) <= options.maxConcurrentYtdlpCalls

\* More units than the limit: as many as the limit are in flight, and
\* another one has not been started.
C11_Witness ==
  /\ pc = "yt-dlp"
  /\ Len(units) > options.maxConcurrentYtdlpCalls
  /\ Cardinality(UnitsInFlight) = options.maxConcurrentYtdlpCalls
  /\ \E u \in 1..Len(units) :
       units[u].thumbnail = "none" /\ units[u].ytdlp = "none"

\* The run is in the fetch of the details, or past it.
FetchingDetails == pc \in {"videos.list", "durationsObj"}

\* The positions of the requests of wave w in the log of the provider.
RequestsOfWave(w) ==
  {i \in 1..Len(videosListApi) :
     videosListApi[i].event = "request" /\ videosListApi[i].wave = w}

\* Call b of wave w had settled before position i of the log.
SettledBefore(w, b, i) ==
  \E j \in 1..(i - 1) :
    /\ videosListApi[j].event \in {"response", "error"}
    /\ videosListApi[j].wave = w
    /\ videosListApi[j].call = b

\* C12: in the detail fetcher, no batch call of wave n+1 is issued until
\* every batch call of wave n has settled (fulfilled or rejected), and each
\* wave issues at most maxConcurrentYouTubeCalls batch calls.
C12_WaveAfterWave ==
  FetchingDetails =>
    \A w \in 1..Len(fetchIdChunks) :
      /\ Cardinality(RequestsOfWave(w)) <= options.maxConcurrentYouTubeCalls
      /\ \A i \in RequestsOfWave(w) :
           \A n \in 1..(w - 1) :
             \A b \in 1..Len(fetchIdChunks[n]) : SettledBefore(n, b, i)

\* The second wave has been issued after a first wave of two calls, one of
\* which was rejected.
C12_Witness ==
  /\ pc = "videos.list"
  /\ Len(fetchIdChunks) > 1
  /\ Len(fetchIdChunks[1]) > 1
  /\ RequestsOfWave(2) # {}
  /\ videosListCalls[1][1] = "rejected"
  /\ videosListCalls[1][2] = "fulfilled"
  /\ videosListCalls[2][1] = "pending"

\* The ids of a list of videos, in its order.
IdSeq(videos) == [i \in 1..Len(videos) |-> videos[i].id]

\* The ids of the units that returned a video, in the order of submission.
RECURSIVE SucceededIds(_, _)
SucceededIds(unitStates, u) ==
  IF u > Len(unitStates) THEN <<>>
  ELSE (IF unitStates[u].ytdlp = "video" THEN <<unitStates[u].id>> ELSE <<>>)
       \o SucceededIds(unitStates, u + 1)

\* The units of the batches before `wave`, that is, of the collected ones.
CollectedUnits ==
  IF pc = "return" THEN units
  ELSE SubSeq(units, 1, (wave - 1) * options.maxConcurrentYtdlpCalls)

\* Slot k of the responses is the answer to call k, in the order of issue.
InOrderOfIssue(k) ==
  LET ids == Flatten(fetchIdChunks)[k]
  IN \/ videoListResponses[k] = VideoListResponse(ids)
     \/ videoListResponses[k] = NullResponse

\* C13: the succeeded records (and the detail responses) are accumulated in
\* the order the units were submitted, independent of the order in which
\* the units inside a wave complete.
C13_AccumulatedInSubmissionOrder ==
  /\ Downloading =>
       IdSeq(videosDownloaded) = SucceededIds(CollectedUnits, 1)
  /\ FetchingDetails =>
       \A k \in 1..Len(videoListResponses) : InOrderOfIssue(k)

\* Units 1 and 2 of one batch returned videos, unit 2 first, and the videos
\* downloaded are those of unit 1 and then of unit 2.
C13_Witness ==
  /\ Downloading
  /\ options.maxConcurrentYtdlpCalls > 1
  /\ Len(completions) > 1
  /\ completions[1] = 2
  /\ completions[2] = 1
  /\ Len(videosDownloaded) > 1
  /\ videosDownloaded[1].id = 1
  /\ videosDownloaded[2].id = 2

\* The responses of a wave arrived in the reverse order of the calls, and
\* are stored in the order of the calls.
C13_WitnessDetails ==
  /\ FetchingDetails
  /\ Len(videosListApi) > 3
  /\ videosListApi[3].event = "response"
  /\ videosListApi[3].call = 2
  /\ videosListApi[4].event = "response"
  /\ videosListApi[4].call = 1
  /\ Len(videoListResponses) > 1
  /\ videoListResponses[1] = VideoListResponse(fetchIdChunks[1][1])
  /\ videoListResponses[2] = VideoListResponse(fetchIdChunks[1][2])

\* STEP 4 is over.
Downloaded == pc = "return" /\ units # <<>>

FailuresOfType(type) == SelectSeq(failures, LAMBDA f : f.type = type)

UnitsEnding(outcome) == {u \in 1..Len(units) : units[u].ytdlp = outcome}

\* What the `.catch` of a unit catches: a rejected promise of the shell,
\* and what JSON.parse and fs.renameSync throw.
UnitErrors == {"shellPromise", "JSON.parse", "fs.renameSync"}

\* A failure of unit u is recorded: of a yt-dlp that exited with an error,
\* under the url of the video; of what the `.catch` caught, under the id;
\* of output that fails the schema, without a reference to the video.
FailureRecorded(u) ==
  CASE units[u].ytdlp = "ytdlpFailure" ->
         \E i \in 1..Len(failures) :
           failures[i] = [url |-> units[u].id, type |-> "ytdlpFailure"]
    [] units[u].ytdlp \in {"generic", "shellRejects"} ->
         \E i \in 1..Len(failures), error \in UnitErrors :
           failures[i] = GenericUnitFailure(units[u].id, error)
    [] units[u].ytdlp = "schemaParse" ->
         Len(FailuresOfType("schemaParse")) =
           Cardinality(UnitsEnding("schemaParse"))
    [] OTHER -> TRUE

ToolOrParseFailed(unit) ==
  unit.ytdlp \in {"shellRejects", "ytdlpFailure", "generic", "schemaParse"}

\* C14: a download unit whose tool invocation exits with failure or whose
\* output fails to parse is recorded as a failure and is absent from the
\* succeeded set, and every other selected unit is still run to its own
\* terminal outcome.
C14_FailedUnitIsRecordedAndSkipped ==
  Downloaded =>
    \A u \in 1..Len(units) :
      /\ Terminal(units[u])
      /\ ToolOrParseFailed(units[u]) =>
           /\ FailureRecorded(u)
           /\ \A i \in 1..Len(videosDownloaded) :
                videosDownloaded[i].id # units[u].id
      /\ units[u].ytdlp = "video" =>
           \E i \in 1..Len(videosDownloaded) :
             videosDownloaded[i].id = units[u].id

\* Of two units run at the same time, the first one's yt-dlp exited with
\* an error or printed what failed to parse, and the second one's video is
\* the one video downloaded.
C14_Witness ==
  /\ Downloaded
  /\ Len(units) = 2
  /\ options.maxConcurrentYtdlpCalls = 2
  /\ units[1].ytdlp \in {"ytdlpFailure", "generic", "schemaParse"}
  /\ units[2].ytdlp = "video"
  /\ IdSeq(videosDownloaded) = <<2>>
  /\ Len(failures) > 0

\* The fetch of the details is over.
DetailsFetched == pc = "durationsObj" /\ fetchIdChunks # <<>>

\* The number of failures recorded for a call with `ids`.
VideosListApiFailures(ids) ==
  Len(SelectSeq(failures,
                LAMBDA f : f = [type |-> "videosListApi", ids |-> ids]))

\* C15: if a detail batch call fails, a failure carrying exactly the ids of
\* that batch is recorded, and every other batch of the same wave and of
\* later waves is still issued and its result used.
C15_FailedBatchIsRecordedAlone ==
  DetailsFetched =>
    /\ Len(FailuresOfType("videosListApi")) =
         Cardinality({wb \in {<<w, b>> : w \in 1..MaxBatches,
                                         b \in 1..MaxConcurrency} :
                        /\ wb[1] <= Len(videosListCalls)
                        /\ wb[2] <= Len(videosListCalls[wb[1]])
                        /\ videosListCalls[wb[1]][wb[2]] = "rejected"})
    /\ \A w \in 1..Len(fetchIdChunks) :
         \A b \in 1..Len(fetchIdChunks[w]) :
           LET ids == fetchIdChunks[w][b]
               k == CollectedAfter(fetchIdChunks, w - 1) + b
           IN IF videosListCalls[w][b] = "rejected"
                THEN /\ VideosListApiFailures(ids) = 1
                     /\ videoListResponses[k] = NullResponse
                ELSE /\ videosListCalls[w][b] = "fulfilled"
                     /\ VideosListApiFailures(ids) = 0
                     /\ videoListResponses[k] = VideoListResponse(ids)
                     /\ \A i \in 1..Len(ids) :
                          ids[i] \in DurationIds(videoListResponses)

\* The second call of the first wave failed; the first call and the call
\* of the second wave were answered, and their videos have durations.
C15_Witness ==
  /\ DetailsFetched
  /\ Len(fetchIdChunks) > 1
  /\ Len(fetchIdChunks[1]) > 1
  /\ videosListCalls[1][1] = "fulfilled"
  /\ videosListCalls[1][2] = "rejected"
  /\ videosListCalls[2][1] = "fulfilled"
  /\ failures = <<[type |-> "videosListApi", ids |-> fetchIdChunks[1][2]]>>
  /\ fetchIdChunks[2][1][1] \in DurationIds(videoListResponses)
  /\ fetchIdChunks[1][2][1] \notin DurationIds(videoListResponses)

\* The states of a unit: not started; a request for a thumbnail in flight;
\* yt-dlp running, the attempts at the thumbnail being over.
\* A unit is parse-failed when its handler failed after exit code 0, and
\* tool-failed when yt-dlp exited with an error or the promise of the
\* shell was rejected.
Pending(unit) == unit.thumbnail = "none" /\ unit.ytdlp = "none"
Attempting(unit) ==
  unit.thumbnail \in {"fetch", "Bun.write"} /\ unit.ytdlp = "none"
Invoked(unit) ==
  unit.thumbnail \notin {"fetch", "Bun.write"} /\ unit.ytdlp = "running"
Parsed(unit) == unit.ytdlp = "video"
ParseFailed(unit) == unit.ytdlp \in {"generic", "schemaParse"}
ToolFailed(unit) == unit.ytdlp \in {"shellRejects", "ytdlpFailure"}
NotFound(unit) == unit.thumbnail = "none" /\ unit.ytdlp = "partialVideoNotFound"

\* Unit u before a step; the units of a run are not started when
\* downloadPromiseFxns is built.
UnitBefore(u) ==
  IF units = <<>>
    THEN PendingUnit(units'[u].id, units'[u].known, units'[u].urls)
    ELSE units[u]

\* The steps of a unit in the state machine of the specification.
StepOfStateMachine(old, new) ==
  \/ new = old
  \/ Pending(old) /\ (Attempting(new) \/ Invoked(new))
  \/ /\ Attempting(old)
     /\ \/ Attempting(new) /\ new.call.index > old.call.index
        \/ /\ old.thumbnail = "fetch" /\ new.thumbnail = "Bun.write"
           /\ new.call = old.call
        \/ Invoked(new)
  \/ /\ Invoked(old)
     /\ new.thumbnail = old.thumbnail
     /\ Parsed(new) \/ ParseFailed(new) \/ ToolFailed(new)

\* C16, as stated: each download unit only moves forward through pending,
\* thumbnail attempts, download invoked, then exactly one of parsed,
\* parse-failed and tool-failed.
C16_Original ==
  [][units' # <<>> =>
       /\ units # <<>> => Len(units') = Len(units)
       /\ \A u \in 1..Len(units') :
            StepOfStateMachine(UnitBefore(u), units'[u])]_vars

\* C16: each download unit only moves forward through pending, thumbnail
\* attempts, download invoked, then exactly one of parsed, parse-failed and
\* tool-failed, or from pending straight to the end when its id is not
\* among the videos of the playlist: yt-dlp is invoked at most once per
\* unit, only after that unit's thumbnail attempts have ended, and a unit
\* that reached a terminal outcome is never run again.
C16_UnitsMoveForward ==
  [][units' # <<>> =>
       /\ units # <<>> => Len(units') = Len(units)
       /\ \A u \in 1..Len(units') :
            \/ StepOfStateMachine(UnitBefore(u), units'[u])
            \/ Pending(UnitBefore(u)) /\ NotFound(units'[u])]_vars

\* A run is over in which a unit went through an attempt at a thumbnail
\* that failed and a yt-dlp that gave a video, and another unit ended
\* without either because its id was not found.
C16_Witness ==
  /\ Downloaded
  /\ \E u \in 1..Len(units) :
       units[u].thumbnail = "rejected" /\ Parsed(units[u])
  /\ \E u \in 1..Len(units) : NotFound(units[u])


(***************************************************************************)
(* A run of `downloadYouTubePlaylist` of part_021 as a whole, from the     *)
(* check of the system dependencies (STEP 1) to the value it returns or    *)
(* the error it throws.                                                    *)
(*                                                                         *)
(* pc is "thrown" once the promise of downloadYouTubePlaylist is rejected, *)
(* and "return" once it is fulfilled.  The playlist of a run has one page  *)
(* of at most MaxVideos items and every item is asked for                  *)
(* (mostRecentItemsCount is undefined); item i is of video i.  The calls   *)
(* of yt.videos.list and the units of work are those of the                *)
(* specification of the waves.                                             *)
(***************************************************************************)
\* The largest number of items of the playlist of a run.
MaxVideos == 1

\* What `Bun.which` returns: the path of the binary, or null.
Which(bin) == {null, bin}

\* The directories a caller passes: one that exists and one that does not.
Directories == {"/exists", "/missing"}

\* `maxDurationSeconds`: a ceiling of one second, or the default.
MaxDurations == {Finite(1), Infinity}

\* The items the provider lists: a video, a video it reports as private
\* or as deleted, a video whose description alone says it is unavailable,
\* and an item PlaylistItemSchema rejects.
ItemKinds ==
  {"video", "Private video", "Deleted video", "unavailable description",
   "invalid"}

\* `snippet.title` of an item of each kind.
ItemTitle(kind) ==
  IF kind \in {"Private video", "Deleted video"} THEN kind ELSE "A title"

\* `snippet.description` of an item of each kind.
ItemDescription(kind) ==
  CASE kind = "Private video" -> "This video is private."
    [] kind \in {"Deleted video", "unavailable description"} ->
         "This video is unavailable."
    [] OTHER -> "A description"

\* What the provider says of a video it was asked the details of: the
\* string `contentDetails.duration`, which can be empty, or an item
\* VideosListItemSchema rejects.
ItemDurations == {"PT1S", "PT2S", "", "invalid"}

\* `parseISO8601DurationToSeconds` of part_017:879-901.  The regular
\* expression is matched from left to right: each optional group is some
\* digits and its designator, the group of the seconds can have a point and
\* one to three digits more, and the groups of the time need the "T".  A
\* group is skipped where its designator does not follow the digits, and
\* the string matches when the groups end where it ends; when it does not
\* match, no group is captured.  A captured group counts for its number and
\* any other for 0.  The sum is a whole number of seconds, or, when the
\* seconds have a fraction that is not zero, the pair <<n, 1000>> that
\* stands for the number n / 1000.  Sums are exact below 2^31.
ParseISO8601DurationToSeconds(durationString) ==
  LET s == durationString
      CharAt(i) == IF i \in 1..Len(s) THEN SubSeq(s, i, i) ELSE ""
      IsDigit(c) == c \in {"0", "1", "2", "3", "4", "5", "6", "7", "8", "9"}
      DigitValue(c) ==
        CASE c = "0" -> 0 [] c = "1" -> 1 [] c = "2" -> 2 [] c = "3" -> 3
          [] c = "4" -> 4 [] c = "5" -> 5 [] c = "6" -> 6 [] c = "7" -> 7
          [] c = "8" -> 8 [] c = "9" -> 9
      RECURSIVE SkipDigits(_)
      SkipDigits(i) ==
        IF i <= Len(s) /\ IsDigit(CharAt(i)) THEN SkipDigits(i + 1) ELSE i
      RECURSIVE ParseInt(_)
      ParseInt(digits) ==
        IF digits = "" THEN 0
        ELSE ParseInt(SubSeq(digits, 1, Len(digits) - 1)) * 10
               + DigitValue(SubSeq(digits, Len(digits), Len(digits)))
      Literal(i, c) == IF CharAt(i) = c THEN i + 1 ELSE i
      NoGroup(i) == [next |-> i, text |-> "", fraction |-> ""]
      \* `(?:(\d+)X)?` at position i.
      Group(i, designator) ==
        LET j == SkipDigits(i)
        IN IF j > i /\ CharAt(j) = designator
             THEN [next |-> j + 1, text |-> SubSeq(s, i, j - 1),
                   fraction |-> ""]
             ELSE NoGroup(i)
      \* `(?:(\d+(?:\.\d{1,3})?)S)?` at position i.
      SecondsGroup(i) ==
        LET j == SkipDigits(i)
            k == IF j > i /\ CharAt(j) = "."
                      /\ SkipDigits(j + 1) - (j + 1) \in 1..3
                   THEN SkipDigits(j + 1) ELSE j
        IN IF j > i /\ CharAt(k) = "S"
             THEN [next |-> k + 1, text |-> SubSeq(s, i, j - 1),
                   fraction |-> IF k > j THEN SubSeq(s, j + 1, k - 1) ELSE ""]
             ELSE NoGroup(i)
      \* The groups of `designators`, one after the other from position i.
      RECURSIVE Groups(_, _)
      Groups(i, designators) ==
        IF designators = <<>> THEN <<>>
        ELSE <<Group(i, Head(designators))>>
               \o Groups(Group(i, Head(designators)).next, Tail(designators))
      number(isMatch, g) ==
        IF isMatch /\ g.text # "" THEN ParseInt(g.text) ELSE 0
      Thousandths(isMatch, seconds) ==
        IF isMatch /\ seconds.text # ""
          THEN CASE Len(seconds.fraction) = 0 -> 0
                 [] Len(seconds.fraction) = 1 -> ParseInt(seconds.fraction) * 100
                 [] Len(seconds.fraction) = 2 -> ParseInt(seconds.fraction) * 10
                 [] Len(seconds.fraction) = 3 -> ParseInt(seconds.fraction)
          ELSE 0
      \* date is <<years, months, weeks, days>>, time <<hours, minutes>>.
      WholeSeconds(isMatch, date, time, seconds) ==
        number(isMatch, date[1]) * 31536000 + number(isMatch, date[2]) * 2592000
          + number(isMatch, date[3]) * 604800 + number(isMatch, date[4]) * 86400
          + number(isMatch, time[1]) * 3600 + number(isMatch, time[2]) * 60
          + number(isMatch, seconds)
      Total(wholeSeconds, thousandths) ==
        IF thousandths = 0 THEN wholeSeconds
        ELSE <<wholeSeconds * 1000 + thousandths, 1000>>
      Matched(isMatch, date, time, seconds) ==
        Total(WholeSeconds(isMatch, date, time, seconds),
              Thousandths(isMatch, seconds))
      AfterSeconds(p, date, time, seconds) ==
        Matched(p = 2 /\ seconds.next = Len(s) + 1, date, time, seconds)
      AfterMinutes(p, date, t, hasTime, time) ==
        AfterSeconds(p, date, time,
                     IF hasTime THEN SecondsGroup(time[2].next)
                     ELSE NoGroup(t))
      AfterT(p, date, t, hasTime) ==
        AfterMinutes(p, date, t, hasTime,
                     IF hasTime THEN Groups(t, <<"H", "M">>)
                     ELSE <<NoGroup(t), NoGroup(t)>>)
      AfterDays(p, date, t) == AfterT(p, date, t, t > date[4].next)
      AfterP(p, date) == AfterDays(p, date, Literal(date[4].next, "T"))
      AfterStart(p) == AfterP(p, Groups(p, <<"Y", "M", "W", "D">>))
  IN AfterStart(Literal(1, "P"))

\* What a call of `getIdsForDownload` that does not throw gives for the
\* ids it is given: it returns them, returns every id of the playlist,
\* returns none, returns an id that is not of the playlist (0), returns the
\* first of them twice, or returns a promise that is rejected.
Decisions ==
  {"potentialIds", "everyId", "noId", "unknownId", "firstIdTwice", "rejects"}

\* `durationInSeconds <= maxDurationSeconds`.
WithinMaxDuration(durationInSeconds, maxDurationSeconds) ==
  ~maxDurationSeconds.finite \/ durationInSeconds <= maxDurationSeconds.n

\* A variant that looks for yt-dlp alone.
DependenciesPresentYtDlpOnly(ytDlp, ffmpeg) == ytDlp # null

\* A variant that leaves the unavailable videos among the potential ids.
PotentialIdsOfAnyAvailability(videos, maxDurationSeconds) ==
  IdSeq(SelectSeq(videos,
                  LAMBDA video :
                    WithinMaxDuration(video.durationInSeconds,
                                      maxDurationSeconds)))

\* `!(!ytDlpPath || !ffmpegPath)` of part_021:99.
DependenciesPresent(ytDlp, ffmpeg) == ~(ytDlp = null \/ ffmpeg = null)

\* The numbers of the items PlaylistItemSchema accepts, in their order.
ParsedItems(kinds) ==
  SelectSeq([i \in 1..Len(kinds) |-> i], LAMBDA i : kinds[i] # "invalid")

\* `partialVideosMetadata` of part_021:172-220 for one page of items.  A
\* video has one thumbnail url and a private or deleted video has none.
PartialVideosMetadata(kinds) ==
  LET parsed == ParsedItems(kinds)
  IN [k \in 1..Len(parsed) |->
        [id |-> parsed[k],
         title |-> ItemTitle(kinds[parsed[k]]),
         description |-> ItemDescription(kinds[parsed[k]]),
         thumbnailUrls |->
           IF kinds[parsed[k]] \in {"Private video", "Deleted video"}
             THEN <<>> ELSE ThumbnailUrls(1),
         isUnavailable |-> IsUnavailableTitle(ItemTitle(kinds[parsed[k]]))]]

\* The failures the reduce of part_021:172-220 pushes.
PlaylistItemSchemaFailures(kinds) ==
  LET invalid == SelectSeq(kinds, LAMBDA kind : kind = "invalid")
  IN [k \in 1..Len(invalid) |->
        [type |-> "schemaParse", schemaName |-> "PlaylistItemSchema"]]

\* `videoIdsToFetch` of part_021:248-283.
AvailableIds(partialVideos) ==
  IdSeq(SelectSeq(partialVideos, LAMBDA video : ~video.isUnavailable))

\* The ids of the items of the responses of yt.videos.list, in their order.
RECURSIVE ResponseItemIds(_)
ResponseItemIds(responses) ==
  IF responses = <<>> THEN <<>>
  ELSE Head(responses).items \o ResponseItemIds(Tail(responses))

\* The failures the reduce of part_021:385-415 pushes.
VideosListItemSchemaFailures(responses, durations) ==
  LET invalid == SelectSeq(ResponseItemIds(responses),
                           LAMBDA id : durations[id] = "invalid")
  IN [k \in 1..Len(invalid) |->
        [type |-> "schemaParse", schemaName |-> "VideosListItemSchema"]]

\* A variant in which a duration that was not obtained counts as longer
\* than every finite ceiling of the model.
DurationInSecondsUnknownAsLong(responses, durations, id) ==
  IF id \in DurationIds(responses) /\ durations[id] \notin {"invalid", ""}
    THEN ParseISO8601DurationToSeconds(durations[id])
    ELSE 2

\* `durationsObj[partialVideo.id] ?? 0` of part_021:420.
DurationInSeconds(responses, durations, id) ==
  IF id \in DurationIds(responses) /\ durations[id] # "invalid"
    THEN ParseISO8601DurationToSeconds(durations[id])
    ELSE 0

\* `partialVideosWithDurationMetadata` of part_021:418-422.
PartialVideosWithDurationMetadata(partialVideos, responses, durations) ==
  [i \in 1..Len(partialVideos) |->
     [id |-> partialVideos[i].id,
      title |-> partialVideos[i].title,
      description |-> partialVideos[i].description,
      thumbnailUrls |-> partialVideos[i].thumbnailUrls,
      isUnavailable |-> partialVideos[i].isUnavailable,
      durationInSeconds |->
        DurationInSeconds(responses, durations, partialVideos[i].id)]]

\* `potentialIds` of part_021:458-467.
PotentialIds(videos, maxDurationSeconds) ==
  IdSeq(SelectSeq(videos,
                  LAMBDA video :
                    /\ WithinMaxDuration(video.durationInSeconds,
                                         maxDurationSeconds)
                    /\ ~video.isUnavailable))

\* What the call of getIdsForDownload gives.
DecidedIds(decision, potentialIds, videos) ==
  CASE decision = "potentialIds" -> potentialIds
    [] decision = "everyId" -> IdSeq(videos)
    [] decision = "unknownId" -> <<0>>
    [] decision = "firstIdTwice" ->
         IF potentialIds = <<>> THEN <<>>
         ELSE <<potentialIds[1], potentialIds[1]>>
    [] OTHER -> <<>>

\* A variant in which the `.catch` hands back a list of its own.
GetIdsForDownloadSettledWithOwnList(fs, decision, potentialIds, videos) ==
  IF decision = "rejects"
    THEN [failures |-> <<[type |-> "generic",
                          context |-> "getIdsForDownload"]>>,
          ids |-> <<>>]
    ELSE [failures |-> fs,
          ids |-> DecidedIds(decision, potentialIds, videos)]

\* `await Promise.resolve(options.getIdsForDownload(potentialIds)).catch(..)`
\* of part_021:475-486 for a call that returns: the failures after it and
\* the ids.
GetIdsForDownloadSettled(fs, decision, potentialIds, videos) ==
  IF decision = "rejects"
    THEN [failures |-> Append(fs, [type |-> "generic",
                                   context |-> "getIdsForDownload"]),
          ids |-> <<>>]
    ELSE [failures |-> fs,
          ids |-> DecidedIds(decision, potentialIds, videos)]

\* `partialVideosWthDurationObj[id]`, as a sequence of none or one video.
PartialVideoOf(videos, id) == SelectSeq(videos, LAMBDA video : video.id = id)

\* The units of work of part_021:549-690 for the ids to download.
DownloadPromiseFxns(ids, videos) ==
  [u \in 1..Len(ids) |->
     LET found == PartialVideoOf(videos, ids[u])
     IN PendingUnit(ids[u], found # <<>>,
                    IF found = <<>> THEN <<>> ELSE found[1].thumbnailUrls)]


\* The options of a call (part_021:37-52).
RunOptions(directory, downloadType, downloadThumbnails, maxConcurrentYtdlpCalls, maxDurationSeconds) ==
  [maxConcurrentYouTubeCalls |-> MaxConcurrency,
   downloadType |-> downloadType,
   maxConcurrentYtdlpCalls |-> maxConcurrentYtdlpCalls,
   downloadThumbnails |-> downloadThumbnails,
   maxDurationSeconds |-> maxDurationSeconds,
   directory |-> directory]

\* The options of the calls.  With a directory that exists and without
\* thumbnails: every download type, number of concurrent yt-dlp calls and
\* ceiling.  With thumbnails: the audio, as many at a time as can be, of any
\* duration.  With a directory that does not exist: the audio, one at a
\* time, of any duration; no step of the run up to the downloads reads the
\* directory (part_021:516).
OptionsOfRuns ==
  {RunOptions("/exists", downloadType, FALSE, maxConcurrentYtdlpCalls, maxDurationSeconds) :
     downloadType \in DownloadTypes \cup {"none"},
     maxConcurrentYtdlpCalls \in 1..MaxConcurrency,
     maxDurationSeconds \in MaxDurations}
  \cup {RunOptions("/exists", "audio", TRUE, MaxConcurrency, Infinity)}
  \cup {RunOptions(directory, "audio", FALSE, 1, Infinity) :
          directory \in Directories}

\* downloadYouTubePlaylist is called: it looks for yt-dlp and ffmpeg and
\* throws if one is missing; otherwise it calls genPlaylistItems, which
\* sends the request for the first page.
DownloadYouTubePlaylist ==
  /\ pc = "idle"
  /\ \E ytDlp \in Which("yt-dlp"), ffmpeg \in Which("ffmpeg"),
        opts \in OptionsOfRuns :
       LET call == GenPlaylistItemsCall(TotalItemsToFetch(undefined), 0,
                                        NoPageToken, <<>>)
       IN /\ ytDlpPath' = ytDlp
          /\ ffmpegPath' = ffmpeg
          /\ options' = opts
          /\ IF DependenciesPresent(ytDlp, ffmpeg)
               THEN /\ pc' = "playlistItems.list"
                    /\ playlistItemsCall' = call
                    /\ playlistItemsApi' = <<ListRequest(call)>>
               ELSE /\ pc' = "thrown"
                    /\ UNCHANGED <<playlistItemsCall, playlistItemsApi>>
  /\ UNCHANGED reconcileVars
  /\ UNCHANGED <<failures, youTubeFetchCount, downloadCount,
                 playlistItemListResponses, thumbnailVars, detailVars,
                 downloadVars, partialVideosMetadata,
                 partialVideosWithDurationMetadata, idsToDownload>>

\* The provider answers the request for the page with the items `kinds`, or
\* the request fails; downloadYouTubePlaylist goes on to the call of
\* fetchIdChunks.reduce (part_021:147-331).
PlaylistItemsSettle(kinds, fulfilled) ==
  /\ pc = "playlistItems.list"
  /\ ~fulfilled => kinds = <<>>
  /\ LET response == PlaylistItemListResponse(playlistItemsCall.pageToken,
                                              Len(kinds), FALSE)
         settled == IF fulfilled
                      THEN GenPlaylistItemsFulfilled(playlistItemsCall,
                                                     response)
                      ELSE GenPlaylistItemsRejected(playlistItemsCall,
                                                    "error")
         partialVideos == PartialVideosMetadata(kinds)
         chunks == FetchIdChunks(AvailableIds(partialVideos),
                                 options.maxConcurrentYouTubeCalls)
     IN /\ playlistItemsApi' =
             Append(playlistItemsApi,
                    IF fulfilled THEN response ELSE [event |-> "error"])
        /\ youTubeFetchCount' =
             IF fulfilled THEN youTubeFetchCount + 1 ELSE youTubeFetchCount
        /\ playlistItemListResponses' =
             IF settled.status = "fulfilled" THEN settled.value ELSE <<>>
        /\ failures' =
             (IF settled.status = "fulfilled"
                THEN failures
                ELSE Append(failures, [type |-> "generic",
                                       context |-> "genPlaylistItems"]))
             \o PlaylistItemSchemaFailures(kinds)
        /\ partialVideosMetadata' = partialVideos
        /\ fetchIdChunks' = chunks
        /\ videosListCalls' =
             [w \in 1..Len(chunks) |->
                [b \in 1..Len(chunks[w]) |-> "unissued"]]
        /\ pc' = IF chunks = <<>> THEN "durationsObj" ELSE "videos.list"
  /\ UNCHANGED reconcileVars
  /\ UNCHANGED <<playlistItemsCall, options, downloadCount, thumbnailVars,
                 videosListApi, videoListResponses, downloadVars,
                 partialVideosWithDurationMetadata, idsToDownload,
                 ytDlpPath, ffmpegPath>>

\* The details are in: downloadYouTubePlaylist adds the durations and calls
\* getIdsForDownload with the potential ids (part_021:385-475).  The call
\* throws, which rejects the promise of downloadYouTubePlaylist, or it
\* returns a value or a promise, which is awaited.  With downloadType
\* 'none' there is no call and the run goes on to its end.
GetIdsForDownload(durations, throws) ==
  /\ pc = "durationsObj"
  /\ \A id \in 1..MaxVideos :
       id \notin DurationIds(videoListResponses) => durations[id] = "PT1S"
  /\ options.downloadType = "none" => ~throws
  /\ LET videos == PartialVideosWithDurationMetadata(
                     partialVideosMetadata, videoListResponses, durations)
         parsed == failures \o VideosListItemSchemaFailures(
                                 videoListResponses, durations)
     IN /\ partialVideosWithDurationMetadata' = videos
        /\ failures' = parsed
        /\ pc' = IF options.downloadType = "none" THEN "return"
                 ELSE IF throws THEN "thrown"
                 ELSE "getIdsForDownload"
  /\ UNCHANGED reconcileVars
  /\ UNCHANGED <<youTubeFetchCount, options, downloadCount, playlistVars,
                 thumbnailVars, detailVars, downloadVars,
                 partialVideosMetadata, idsToDownload, ytDlpPath,
                 ffmpegPath>>

\* What getIdsForDownload returned is settled (part_021:475-486): the ids
\* are those it gave, or none after a rejection, which is recorded; if
\* there is something to download, the first batch of units is started
\* (part_021:498-743).
GetIdsForDownloadSettles(decision) ==
  /\ pc = "getIdsForDownload"
  /\ LET videos == partialVideosWithDurationMetadata
         potentialIds == PotentialIds(videos, options.maxDurationSeconds)
         settled == GetIdsForDownloadSettled(failures, decision,
                                             potentialIds, videos)
         pending == DownloadPromiseFxns(settled.ids, videos)
         batches == PromiseFxnBatches(Len(pending),
                                      options.maxConcurrentYtdlpCalls)
         s == StartBatch([failures |-> settled.failures, units |-> pending,
                          completions |-> <<>>, late |-> <<>>],
                         batches[1], 1, options.downloadThumbnails)
     IN IF settled.ids = <<>>
          THEN /\ pc' = "return"
               /\ failures' = settled.failures
               /\ idsToDownload' = settled.ids
               /\ UNCHANGED <<units, wave, completions>>
          ELSE /\ pc' = "yt-dlp"
               /\ idsToDownload' = settled.ids
               /\ units' = s.units
               /\ wave' = 1
               /\ completions' = s.completions
               /\ failures' = s.failures \o s.late
  /\ UNCHANGED reconcileVars
  /\ UNCHANGED <<youTubeFetchCount, options, downloadCount, playlistVars,
                 thumbnailVars, detailVars, videosDownloaded,
                 partialVideosMetadata, partialVideosWithDurationMetadata,
                 ytDlpPath, ffmpegPath>>

RunNext ==
  \/ DownloadYouTubePlaylist
  \/ \E n \in 0..MaxVideos, fulfilled \in BOOLEAN :
       \E kinds \in [1..n -> ItemKinds] : PlaylistItemsSettle(kinds, fulfilled)
  \/ \E w \in 1..MaxBatches : IssueVideosListWave(w)
  \/ \E w \in 1..MaxBatches, b \in 1..MaxConcurrency, fulfilled \in BOOLEAN :
       VideosListSettles(w, b, fulfilled)
  \/ \E w \in 1..MaxBatches : CollectVideosListWave(w)
  \/ \E durations \in [1..MaxVideos -> ItemDurations], throws \in BOOLEAN :
       GetIdsForDownload(durations, throws)
  \/ \E decision \in Decisions : GetIdsForDownloadSettles(decision)
  \/ \E u \in 1..MaxUnits, status \in UnitStatuses :
       UnitThumbnailResponds(u, status)
  \/ \E u \in 1..MaxUnits, writeOk \in BOOLEAN :
       UnitThumbnailWritten(u, writeOk)
  \/ \E u \in 1..MaxUnits : UnitThumbnailFetchRejected(u)
  \/ \E u \in 1..MaxUnits, result \in YtDlpResults : YtDlpExits(u, result)
  \/ CollectBatch

RunSpec == Init /\ [][RunNext]_vars



(***************************************************************************)
(* Claims about a run as a whole.                                          *)
(***************************************************************************)
\* yt-dlp or ffmpeg was looked for and not found.
DependencyMissing ==
  pc # "idle" /\ (ytDlpPath = null \/ ffmpegPath = null)

\* The promise of downloadYouTubePlaylist is rejected.
Raised == pc = "thrown"

\* The promise of downloadYouTubePlaylist is fulfilled.
Returned == pc = "return"

\* yt-dlp was started for the unit.
ToolInvokedFor(unit) == unit.ytdlp \notin {"none", "partialVideoNotFound"}

\* No request has gone to the provider of the metadata or of the
\* thumbnails, and no unit of work exists.
NothingRequestedOrInvoked ==
  /\ playlistItemsApi = <<>>
  /\ videosListApi = <<>>
  /\ thumbnailFetches = <<>>
  /\ youTubeFetchCount = 0
  /\ units = <<>>

\* C23: if yt-dlp or ffmpeg is missing, the run ends with an error, and no
\* request has been sent to the provider of the metadata and no external
\* process has been started.
C23_MissingDependencyAborts ==
  DependencyMissing => Raised /\ NothingRequestedOrInvoked

\* ffmpeg alone is missing and the run has ended with the error.
C23_Witness ==
  /\ Raised
  /\ ytDlpPath = "yt-dlp"
  /\ ffmpegPath = null
  /\ NothingRequestedOrInvoked

\* The run was started with a target directory that does not exist.
DirectoryMissing == pc # "idle" /\ options.directory = "/missing"

\* C24 as stated: if the target directory is missing, the run aborts at the
\* start, before any request to the provider of the metadata and any
\* external process.  The start of the run (part_021:80-106) looks for
\* yt-dlp and ffmpeg alone; `directory` is read for the first time where
\* the sub-directories are made (part_021:516-534), and mkdirSafe catches
\* what fs.mkdirSync throws (part_017:871-877).
C24_Original ==
  DirectoryMissing => Raised /\ NothingRequestedOrInvoked

\* The checks of the start of the run have passed.
PreconditionsPassed ==
  /\ pc # "idle"
  /\ ytDlpPath # null
  /\ ffmpegPath # null
  /\ options.directory = "/exists"

\* C25 as stated: once the checks of the start have passed, the run never
\* raises.
C25_Original == PreconditionsPassed => ~Raised

\* `old` is the beginning of `new`.
IsPrefix(old, new) ==
  Len(old) <= Len(new) /\ SubSeq(new, 1, Len(old)) = old

\* C26: the failures only grow during a run: every step leaves the failures
\* it finds where they are and as they are, so the list returned has every
\* failure that was pushed.
C26_FailuresOnlyGrow == [][IsPrefix(failures, failures')]_vars

\* The run has returned failures of three stages, in the order of the
\* stages: the call of yt.videos.list, the thumbnail and yt-dlp.
C26_Witness ==
  /\ Returned
  /\ Len(failures) = 3
  /\ failures[1].type = "videosListApi"
  /\ failures[2].type = "thumbnailUrlNotAvailable"
  /\ failures[3].type = "ytdlpFailure"

\* The types of `Failure` (part_025:23-80).
FailureTypes ==
  {"Bun.write", "schemaParse", "videosListApi", "partialVideoNotFound",
   "ytdlpFailure", "thumbnailDownload", "thumbnailUrlNotAvailable", "lufs",
   "generic"}

\* C27 as stated: every failure of the list is of one of the types of
\* `Failure`, whatever its cause, a thumbnail request that fails at the
\* level of the network included.
C27_Original ==
  \A i \in 1..Len(failures) : failures[i].type \in FailureTypes

\* The video the unit is for is unavailable or longer than the ceiling.
Excluded(video) ==
  \/ video.isUnavailable
  \/ ~WithinMaxDuration(video.durationInSeconds, options.maxDurationSeconds)

\* yt-dlp was started for a video that is unavailable or too long.
ExcludedVideoInvoked ==
  \E u \in 1..Len(units) :
    /\ ToolInvokedFor(units[u])
    /\ \E i \in 1..Len(partialVideosWithDurationMetadata) :
         /\ partialVideosWithDurationMetadata[i].id = units[u].id
         /\ Excluded(partialVideosWithDurationMetadata[i])

\* C28 as stated: yt-dlp is started for no video that is unavailable or
\* longer than the ceiling, whatever ids getIdsForDownload returns.
C28_Original == ~ExcludedVideoInvoked

\* getIdsForDownload returned ids among those it was given.
DecisionFilters ==
  LET potentialIds == PotentialIds(partialVideosWithDurationMetadata,
                                   options.maxDurationSeconds)
  IN \A u \in 1..Len(idsToDownload) :
       \E i \in 1..Len(potentialIds) : potentialIds[i] = idsToDownload[u]

\* C28: when getIdsForDownload returns ids among those it was given, yt-dlp
\* is started for no video that is unavailable or longer than the ceiling,
\* and the units of work are for the ids it returned; the ids it returns are
\* not filtered again.
C28_FilteredBeforeTheDecision ==
  /\ IdSeq(units) = idsToDownload
  /\ DecisionFilters => ~ExcludedVideoInvoked

\* A video longer than the ceiling was not offered to getIdsForDownload, and
\* the run, which was to download, has returned without a unit of work.
C28_Witness ==
  /\ Returned
  /\ options.downloadType # "none"
  /\ options.maxDurationSeconds = Finite(1)
  /\ Len(partialVideosWithDurationMetadata) = 1
  /\ partialVideosWithDurationMetadata[1].durationInSeconds = 2
  /\ idsToDownload = <<>>
  /\ units = <<>>
  /\ failures = <<>>



(***************************************************************************)
(* Claims about the flag of a video the API reports as unavailable.        *)
(***************************************************************************)
\* The run is over and Bun.write has not failed in it.
RunOverWithoutWriteFailure == pc = "done" /\ failures = <<>>

\* The API reported the video as unavailable, and as nothing else, and the
\* record metadata.json had of it before the run is available.
ReportedUnavailable(video) ==
  /\ ~HasId(freshMetadata, video.id)
  /\ ~HasId(potentialOnDisk, video.id)
  /\ HasId(existingMetadata, video.id)
  /\ ~Find(existingMetadata, video.id).isUnavailable

\* metadata.json has the record it had of the video, with isUnavailable true.
FlagPersisted(video) ==
  /\ HasId(metadataJson, video.id)
  /\ Find(metadataJson, video.id) =
       [Find(existingMetadata, video.id) EXCEPT !.isUnavailable = TRUE]

\* C30 as stated: in every run in which the API reports as unavailable a
\* video whose record in metadata.json is available, metadata.json has
\* after the run isUnavailable true for the video and the rest of its
\* record as it was.
C30_Original ==
  RunOverWithoutWriteFailure =>
    \A i \in 1..Len(unavailableVideos) :
      ReportedUnavailable(unavailableVideos[i]) =>
        FlagPersisted(unavailableVideos[i])



(***************************************************************************)
(* A run of `downloadYouTubePlaylist` of main.ts, from its call to its     *)
(* result.  Each action is what the run does from one of its awaits to the *)
(* next; pc names the await the run is at:                                 *)
(*   "playlistItems.list"            main.ts:341                          *)
(*   "youtubePlaylistResponses.json" main.ts:351                          *)
(*   "videos.list"                   main.ts:516                          *)
(*   "youtubeVideoResponses.json"    main.ts:553                          *)
(*   "yt-dlp"                        main.ts:922                          *)
(*   "thumbnails"                    main.ts:1029                         *)
(*   "metadata.json"                 main.ts:1079                         *)
(*   "Bun.write"                     main.ts:1217                         *)
(* and is "exit" once the process has exited in STEP 1, "thrown" once the  *)
(* promise of the run is rejected and "done" once it is fulfilled.         *)
(*                                                                         *)
(* The playlist answers with its items in one page, of at most MaxItems    *)
(* items; they are fewer than MAX_YOUTUBE_RESULTS, so that one call of     *)
(* yt.videos.list asks for the details of all of them.                     *)
(***************************************************************************)
\* `directory`, resolved.
Directory == "/playlist"

\* The options of a call (main.ts:112-125); maxConcurrentFetchCalls has its
\* default.
Options(downloadType, maxDurationSeconds, downloadThumbnails, saveRawResponses, maxConcurrentYtdlpCalls) ==
  [downloadType |-> downloadType,
   maxConcurrentYtdlpCalls |-> maxConcurrentYtdlpCalls,
   downloadThumbnails |-> downloadThumbnails,
   maxDurationSeconds |-> maxDurationSeconds,
   saveRawResponses |-> saveRawResponses,
   maxConcurrentFetchCalls |-> 4]

\* What `Bun.which` returns: null, or the path of the command.
YtDlpPaths == {null, "/usr/local/bin/yt-dlp"}
FfmpegPaths == {null, "/usr/local/bin/ffmpeg"}

\* `ytDlpPath === null || ffmpegPath === null || !directoryExists`
MissingDependency(ytDlp, ffmpeg, directoryExists) ==
  ytDlp = null \/ ffmpeg = null \/ ~directoryExists

\* A failure of Bun.write, for the file it was to write.
BunWriteFailure(file) == [type |-> "Bun.write", file |-> file]

\* An item of the playlist that PlaylistItemSchema rejects: it has no
\* description.
ItemWithoutDescription(id, date) ==
  [title |-> TitleOf(id),
   videoId |-> id,
   publishedAt |-> date,
   thumbnails |-> <<>>]

\* `safeParse(PlaylistItemSchema, item).success`: the item has the fields
\* the schema requires.
PlaylistItemSchemaAccepts(item) ==
  {"videoId", "title", "description", "publishedAt", "thumbnails"}
    \subseteq DOMAIN item

\* The reduce of main.ts:373-421 over the items of the responses: the
\* partial videos of the items the schema accepts, and a failure for each
\* of the others.
RECURSIVE ParsePlaylistItems(_)
ParsePlaylistItems(items) ==
  IF items = <<>> THEN [failures |-> <<>>, videos |-> <<>>]
  ELSE LET rest == ParsePlaylistItems(Tail(items))
       IN IF PlaylistItemSchemaAccepts(Head(items))
            THEN [failures |-> rest.failures,
                  videos |-> <<PartialVideo(Head(items))>> \o rest.videos]
            ELSE [failures |->
                    <<[type |-> "schemaParse",
                       schemaName |-> "PlaylistItemSchema"]>>
                      \o rest.failures,
                  videos |-> rest.videos]

\* An element of partialVideosWithDurationMetadata.
PartialVideoWithDuration(partialVideo, durationInSeconds) ==
  [f \in (DOMAIN partialVideo) \cup {"durationInSeconds"} |->
     IF f = "durationInSeconds" THEN durationInSeconds ELSE partialVideo[f]]

\* An item of a response of yt.videos.list: the id of the video and its
\* contentDetails.duration.
VideosListItem(id, duration) == [id |-> id, duration |-> duration]

\* An item of a response of yt.videos.list that VideosListItemSchema
\* rejects: it has no contentDetails.
VideosListItemWithoutDetails(id) == [id |-> id]

\* `safeParse(VideosListItemSchema, item).success`
VideosListItemSchemaAccepts(item) == {"id", "duration"} \subseteq DOMAIN item

\* The forEach of main.ts:532-544 over the settled calls of one batch: the
\* response of a fulfilled call, null (<<>>) and a failure for a rejected
\* one.
RECURSIVE SettledVideosList(_, _)
SettledVideosList(idArrays, results) ==
  IF results = <<>> THEN [failures |-> <<>>, responses |-> <<>>]
  ELSE LET rest == SettledVideosList(Tail(idArrays), Tail(results))
       IN IF Head(results).status = "fulfilled"
            THEN [failures |-> rest.failures,
                  responses |-> <<<<Head(results).items>>>> \o rest.responses]
            ELSE [failures |->
                    <<[type |-> "videosListApi", ids |-> Head(idArrays)]>>
                      \o rest.failures,
                  responses |-> <<<<>>>> \o rest.responses]

\* contentDetails.duration of the videos: 3 min 32 s, and 1 h 6 min 40 s.
VideoDurations == {"PT3M32S", "PT1H6M40S"}

\* parseISO8601DurationToSeconds of each of these, computed once.
ParsedVideoDurations ==
  [duration \in VideoDurations |-> ParseISO8601DurationToSeconds(duration)]

\* `parseISO8601DurationToSeconds(duration)` of main.ts:595.
DurationToSeconds(duration) ==
  IF duration \in VideoDurations THEN ParsedVideoDurations[duration]
  ELSE ParseISO8601DurationToSeconds(duration)

\* The forEach of main.ts:574-597 over the items of one response: acc.obj
\* is durationsObj, a function of the ids it has.
RECURSIVE DurationsOfItems(_, _, _)
DurationsOfItems(acc, items, partialVideoIds) ==
  IF items = <<>> THEN acc
  ELSE LET item == Head(items)
           next ==
             IF ~VideosListItemSchemaAccepts(item)
               THEN [acc EXCEPT !.failures =
                       Append(@, [type |-> "schemaParse",
                                  schemaName |-> "VideosListItemSchema"])]
             ELSE IF item.id \notin partialVideoIds
               THEN [acc EXCEPT !.failures =
                       Append(@, [id |-> item.id,
                                  type |-> "partialVideoNotFound"])]
             ELSE [acc EXCEPT !.obj =
                     [id \in (DOMAIN acc.obj) \cup {item.id} |->
                        IF id = item.id
                          THEN DurationToSeconds(item.duration)
                          ELSE acc.obj[id]]]
       IN DurationsOfItems(next, Tail(items), partialVideoIds)

\* `durationsObj` of main.ts:572-602, with the failures of the reduce.
RECURSIVE DurationsObj(_, _, _)
DurationsObj(acc, responses, partialVideoIds) ==
  IF responses = <<>> THEN acc
  ELSE DurationsObj(
         IF Head(responses) = <<>> THEN acc
         ELSE DurationsOfItems(acc, Head(responses)[1], partialVideoIds),
         Tail(responses), partialVideoIds)

\* `durationsObj[partialVideo.id] ?? 0`
DurationOrZero(obj, id) == IF id \in DOMAIN obj THEN obj[id] ELSE 0

\* `potentialVideosToDownload` of main.ts:645-658; the objects of the
\* existing files are given by the ids they have.
PotentialVideosToDownload(videos, maxDurationSeconds, existingAudioFilesObj, existingVideoFilesObj) ==
  SelectSeq(videos,
            LAMBDA video :
              /\ WithinMaxDuration(video.durationInSeconds,
                                   maxDurationSeconds)
              /\ ~video.isUnavailable
              /\ \/ video.id \notin existingAudioFilesObj
                 \/ video.id \notin existingVideoFilesObj)

\* The potential video as main.ts:1130-1150 writes it when nothing was
\* downloaded and metadata.json is missing: with the extensions of its
\* files on disk, "mp3" in the audio directory and "mp4" in the video one.
VideoOnDisk(video, existingAudioFilesObj, existingVideoFilesObj) ==
  DownloadedVideo(video, video.durationInSeconds,
                  <<IF video.id \in existingAudioFilesObj
                      THEN "mp3" ELSE null,
                    IF video.id \in existingVideoFilesObj
                      THEN "mp4" ELSE null>>)

\* The promise functions main.ts:866-890 pushes for one potential video.
PromiseFxnsOf(downloadType, audioExistsOnDisk, videoExistsOnDisk) ==
  (IF downloadType = "both" /\ audioExistsOnDisk /\ ~videoExistsOnDisk
     THEN <<"video">> ELSE <<>>)
  \o (IF downloadType = "both" /\ ~audioExistsOnDisk /\ videoExistsOnDisk
        THEN <<"audio">> ELSE <<>>)
  \o (IF downloadType = "both" /\ ~audioExistsOnDisk /\ ~videoExistsOnDisk
        THEN <<"both">> ELSE <<>>)
  \o (IF downloadType = "video" /\ ~videoExistsOnDisk
        THEN <<"video">> ELSE <<>>)
  \o (IF downloadType = "audio" /\ ~audioExistsOnDisk
        THEN <<"audio">> ELSE <<>>)
  \o (IF downloadType = "none" THEN <<"none">> ELSE <<>>)

\* `downloadPromiseFxns` of main.ts:698-893: for each function its video,
\* its kind, the state of the promise it returns and, once the promise is
\* fulfilled, its value: <<>> for null, else <<the video>>.
RECURSIVE PromiseFxnsOfVideos(_, _, _, _)
PromiseFxnsOfVideos(potential, downloadType, existingAudioFilesObj, existingVideoFilesObj) ==
  IF potential = <<>> THEN <<>>
  ELSE LET video == Head(potential)
           fxns == PromiseFxnsOf(downloadType,
                                 video.id \in existingAudioFilesObj,
                                 video.id \in existingVideoFilesObj)
       IN [i \in 1..Len(fxns) |->
             [video |-> video, value |-> <<>>, fxn |-> fxns[i],
              promise |-> "notCalled"]]
          \o PromiseFxnsOfVideos(Tail(potential), downloadType,
                                 existingAudioFilesObj, existingVideoFilesObj)

\* How the yt-dlp command of a promise function ends.  The command is run
\* without `.nothrow()`: when yt-dlp exits with a code that is not 0 the
\* promise of `$` is rejected ("shellRejects"), or, where the shell does
\* not throw, it is fulfilled with the exit code ("exitCode").  With exit
\* code 0 the stdout is no JSON ("notJson"), a json YtDlpJsonSchema rejects
\* ("notSchema"), or one with `ext` "mp4" and `requested_downloads[0].ext`
\* "mp3"; then the audio file of bothPromiseFxn cannot be renamed
\* ("renameSync"), or the download is done ("downloaded").
DownloadResults ==
  {"shellRejects", "exitCode", "notJson", "notSchema", "renameSync", "downloaded"}

\* The promise bothPromiseFxn, videoPromiseFxn or audioPromiseFxn returns
\* (main.ts:707-762, 764-808, 810-854), settled: rejected when `$` rejects
\* or the `.then` throws (JSON.parse, fs.renameSync), else fulfilled with a
\* value; the failures pushed and what is added to downloadCount.
PromiseFxnThen(fxn, video, result) ==
  LET audio == IF fxn \in {"audio", "both"} THEN 1 ELSE 0
      videos == IF fxn \in {"video", "both"} THEN 1 ELSE 0
  IN CASE result = "shellRejects" ->
            [failures |-> <<>>, video |-> 0,
             audio |-> 0,
             value |-> <<>>, promise |-> "rejected"]
       [] result = "exitCode" ->
            [failures |-> <<[url |-> video.url, type |-> "ytdlpFailure"]>>,
             video |-> 0,
             audio |-> 0,
             value |-> <<>>, promise |-> "fulfilled"]
       [] result = "notJson" \/ (result = "renameSync" /\ fxn = "both") ->
            [failures |-> <<>>, video |-> videos,
             audio |-> audio,
             value |-> <<>>, promise |-> "rejected"]
       [] result = "notSchema" ->
            [failures |-> <<[type |-> "schemaParse",
                             schemaName |-> "YtDlpJsonSchema"]>>,
             video |-> videos,
             audio |-> audio,
             value |-> <<>>, promise |-> "fulfilled"]
       [] OTHER ->
            [failures |-> <<>>, video |-> videos,
             audio |-> audio,
             value |->
               <<DownloadedVideo(
                   video, video.durationInSeconds,
                   <<IF fxn \in {"audio", "both"} THEN "mp3" ELSE null,
                     IF fxn \in {"video", "both"} THEN "mp4" ELSE null>>)>>,
             promise |-> "fulfilled"]

\* The functions of a batch are called: nonePromiseFxn (main.ts:856-864)
\* returns a promise fulfilled with the video, without extensions, and the
\* others start yt-dlp.
CallPromiseFxns(fxns, first, last) ==
  [i \in 1..Len(fxns) |->
     IF i < first \/ i > last THEN fxns[i]
     ELSE IF fxns[i].fxn = "none"
       THEN [fxns[i] EXCEPT
               !.promise = "fulfilled",
               !.value = <<DownloadedVideo(fxns[i].video,
                                           fxns[i].video.durationInSeconds,
                                           <<null, null>>)>>]
     ELSE [fxns[i] EXCEPT !.promise = "pending"]]

\* `successfulResults` of main.ts:927-936: the values of the fulfilled
\* promises that are not null.
SuccessfulDownloads(fxns) ==
  LET successful ==
        SelectSeq(fxns, LAMBDA fxn : fxn.promise = "fulfilled" /\ fxn.value # <<>>)
  IN [i \in 1..Len(successful) |-> successful[i].value[1]]

\* The reduce of main.ts:922-942 as far as it goes without waiting: while
\* a promise of the batch `batch` is pending nothing happens; once all are
\* settled their results are added to the previous ones and the next
\* batch is called, or, after the last batch, the reduce is over.
RECURSIVE PromiseFxnBatchesReduce(_, _, _, _)
PromiseFxnBatchesReduce(fxns, batch, previousResults, size) ==
  LET first == (batch - 1) * size + 1
      last == IF batch * size <= Len(fxns) THEN batch * size ELSE Len(fxns)
      results ==
        IF batch = 0 THEN previousResults
        ELSE previousResults \o SuccessfulDownloads(SubSeq(fxns, first, last))
  IN IF batch # 0 /\ \E i \in first..last : fxns[i].promise = "pending"
       THEN [results |-> previousResults, batch |-> batch, fxns |-> fxns,
             over |-> FALSE]
     ELSE IF batch * size >= Len(fxns)
       THEN [results |-> results, batch |-> batch, fxns |-> fxns,
             over |-> TRUE]
     ELSE PromiseFxnBatchesReduce(
            CallPromiseFxns(fxns, batch * size + 1,
                            IF (batch + 1) * size <= Len(fxns)
                              THEN (batch + 1) * size ELSE Len(fxns)),
            batch + 1, results, size)

\* `thumbnailsToDownload` of main.ts:993-1003, each with the state of the
\* promise of its download.
ThumbnailsToDownload(potential, existingThumbnailIdsOnDiskSet) ==
  LET videos ==
        SelectSeq(potential,
                  LAMBDA video :
                    /\ video.id \notin existingThumbnailIdsOnDiskSet
                    /\ Len(video.thumbnailUrls) # 0)
  IN [i \in 1..Len(videos) |->
        [id |-> videos[i].id, urls |-> videos[i].thumbnailUrls,
         promise |-> "notCalled"]]

\* How a call of downloadThumbnailFile settles (main.ts:1508-1585): it is
\* fulfilled once the file is written, or rejected with a failure of one of
\* these types, or, when fetch rejects, with the error of fetch.
ThumbnailFailureTypes ==
  {"thumbnailUrlNotAvailable", "thumbnailDownload", "Bun.write", "TypeError"}
\* What the promise of the download of `thumbnail` is rejected with.
ThumbnailFailure(type, thumbnail) ==
  CASE type = "thumbnailUrlNotAvailable" ->
         [videoId |-> thumbnail.id, type |-> type, urls |-> thumbnail.urls]
    [] type = "Bun.write" ->
         BunWriteFailure(Directory \o "/thumbnails/" \o thumbnail.id
                           \o ".jpg")
    [] OTHER -> [type |-> type]
ThumbnailOutcomes == {"fulfilled"} \cup ThumbnailFailureTypes

\* The reduce of main.ts:1029-1051 as far as it goes without waiting: once
\* no download of the batch is pending the next batch, of at most `size`
\* thumbnails, is called.
ThumbnailBatchesReduce(thumbnails, size) ==
  IF \E i \in 1..Len(thumbnails) : thumbnails[i].promise = "pending"
    THEN thumbnails
  ELSE LET notCalled == {i \in 1..Len(thumbnails) :
                           thumbnails[i].promise = "notCalled"}
       IN [i \in 1..Len(thumbnails) |->
             IF i \in notCalled
                /\ Cardinality({j \in notCalled : j <= i}) <= size
               THEN [thumbnails[i] EXCEPT !.promise = "pending"]
               ELSE thumbnails[i]]

ThumbnailsOver(thumbnails) ==
  \A i \in 1..Len(thumbnails) :
    thumbnails[i].promise \in {"fulfilled", "rejected"}

\* The locals of STEP 6.
step6Vars == <<existingMetadata, totalMetadata, steps, existingMetadataObj,
               metadataItemsUpdated, shouldWriteMetadata, written>>

\* The variables of the specifications of part_021 that a run of main.ts
\* has no use for.
part021Vars == <<playlistItemsCall, playlistItemsApi, thumbnailVars,
                 videosListCalls, videosListApi, completions,
                 videosDownloaded, idsToDownload>>

\* STEP 1 (main.ts:254-303): the run looks for its commands and its
\* directory, and the process exits when one is missing; else it asks for
\* the items of the playlist (main.ts:333-347).
CallDownloadYouTubePlaylist(opts, ytDlp, ffmpeg, directoryExists) ==
  /\ pc = "idle"
  /\ options' = opts
  /\ ytDlpPath' = ytDlp
  /\ ffmpegPath' = ffmpeg
  /\ pc' = IF MissingDependency(ytDlp, ffmpeg, directoryExists)
             THEN "exit" ELSE "playlistItems.list"
  /\ UNCHANGED <<metadataJson, freshMetadata, potentialOnDisk,
                 unavailableVideos, step6Vars, failures, youTubeFetchCount,
                 downloadCount, playlistItemListResponses, fetchIdChunks,
                 videoListResponses, units, wave, partialVideosMetadata,
                 partialVideosWithDurationMetadata, thumbnailsToDownload,
                 part021Vars>>

\* main.ts:373-527: the partial videos of the items, the unavailable
\* videos, and the calls of yt.videos.list for the ids of the others, in
\* chunks of MAX_YOUTUBE_RESULTS ids and batches of maxConcurrentFetchCalls
\* calls; the calls of the first batch are made.
RequestVideoDetails(responses, fails, count) ==
  LET parsed == ParsePlaylistItems(Flatten(responses))
      unavailable ==
        SelectSeq(parsed.videos, LAMBDA video : video.isUnavailable)
      available ==
        SelectSeq(parsed.videos, LAMBDA video : ~video.isUnavailable)
      videoIdsToFetch == [i \in 1..Len(available) |-> available[i].id]
      chunks == ChunkArray(ChunkArray(videoIdsToFetch, MAX_YOUTUBE_RESULTS),
                           options.maxConcurrentFetchCalls)
  IN /\ partialVideosMetadata' = parsed.videos
     /\ unavailableVideos' =
          [i \in 1..Len(unavailable) |-> UnavailableVideo(unavailable[i])]
     /\ failures' = fails \o parsed.failures
     /\ fetchIdChunks' = chunks
     /\ youTubeFetchCount' =
          count + (IF chunks = <<>> THEN 0 ELSE Len(chunks[1]))
     /\ pc' = "videos.list"

\* The request of yt.playlistItems.list is answered (main.ts:1413-1462):
\* the page has no nextPageToken, and the run goes on to write the raw
\* responses, or to the details of the videos.
PlaylistItemsFulfilled(items) ==
  /\ pc = "playlistItems.list"
  /\ playlistItemListResponses' = <<items>>
  /\ IF options.saveRawResponses
       THEN /\ pc' = "youtubePlaylistResponses.json"
            /\ youTubeFetchCount' = youTubeFetchCount + 1
            /\ UNCHANGED <<partialVideosMetadata, unavailableVideos,
                           failures, fetchIdChunks>>
       ELSE RequestVideoDetails(<<items>>, failures, youTubeFetchCount + 1)
  /\ UNCHANGED <<metadataJson, freshMetadata, potentialOnDisk, step6Vars,
                 options, downloadCount, videoListResponses, units, wave,
                 partialVideosWithDurationMetadata, ytDlpPath, ffmpegPath,
                 thumbnailsToDownload, part021Vars>>

\* The request of yt.playlistItems.list fails: nothing catches the error
\* (main.ts:341), and the promise of the run is rejected.
PlaylistItemsRejected ==
  /\ pc = "playlistItems.list"
  /\ pc' = "thrown"
  /\ UNCHANGED <<metadataJson, freshMetadata, potentialOnDisk,
                 unavailableVideos, step6Vars, failures, youTubeFetchCount,
                 options, downloadCount, playlistItemListResponses,
                 fetchIdChunks, videoListResponses, units, wave,
                 partialVideosMetadata, partialVideosWithDurationMetadata,
                 ytDlpPath, ffmpegPath, thumbnailsToDownload, part021Vars>>

\* Bun.write of youtubePlaylistResponses.json returns or throws
\* (main.ts:349-363).
PlaylistResponsesWritten(writeOk) ==
  /\ pc = "youtubePlaylistResponses.json"
  /\ RequestVideoDetails(
       playlistItemListResponses,
       IF writeOk THEN failures
       ELSE Append(failures, BunWriteFailure("youtubePlaylistResponses.json")),
       youTubeFetchCount)
  /\ UNCHANGED <<metadataJson, freshMetadata, potentialOnDisk, step6Vars,
                 options, downloadCount, playlistItemListResponses,
                 videoListResponses, units, wave,
                 partialVideosWithDurationMetadata, ytDlpPath, ffmpegPath,
                 thumbnailsToDownload, part021Vars>>

\* main.ts:1078-1081: the run asks for the content of metadata.json.
\* main.ts:970-1051 before it: with downloadThumbnails the thumbnails of
\* the potential videos that have urls and no file are downloaded first,
\* in batches of maxConcurrentFetchCalls.
DownloadThumbnails(potential, existingThumbnailIdsOnDiskSet) ==
  LET thumbnails ==
        IF options.downloadThumbnails
          THEN ThumbnailsToDownload(potential, existingThumbnailIdsOnDiskSet)
          ELSE <<>>
  IN /\ thumbnailsToDownload' =
          ThumbnailBatchesReduce(thumbnails, options.maxConcurrentFetchCalls)
     /\ pc' = IF thumbnails = <<>> THEN "metadata.json" ELSE "thumbnails"

\* main.ts:922-1051 from a state of the downloads: the run waits for the
\* pending downloads, or goes on to the thumbnails.
AwaitDownloads(reduced, potential, existingThumbnailIdsOnDiskSet) ==
  /\ units' = reduced.fxns
  /\ wave' = reduced.batch
  /\ freshMetadata' = reduced.results
  /\ IF reduced.over
       THEN DownloadThumbnails(potential, existingThumbnailIdsOnDiskSet)
       ELSE /\ pc' = "yt-dlp"
            /\ UNCHANGED thumbnailsToDownload

\* main.ts:572-942: the durations of the videos, the potential videos to
\* download given the files in the audio and video directories, their
\* promise functions in batches of maxConcurrentYtdlpCalls, and the call
\* of the first batch.
DownloadPotentialVideos(responses, fails, existingFiles, existingThumbnailIdsOnDiskSet) ==
  LET partialVideoIds ==
        {partialVideosMetadata[i].id : i \in 1..Len(partialVideosMetadata)}
      durations == DurationsObj([failures |-> <<>>, obj |-> <<>>],
                                responses, partialVideoIds)
      withDuration ==
        [i \in 1..Len(partialVideosMetadata) |->
           PartialVideoWithDuration(
             partialVideosMetadata[i],
             DurationOrZero(durations.obj, partialVideosMetadata[i].id))]
      potential ==
        PotentialVideosToDownload(withDuration, options.maxDurationSeconds,
                                  existingFiles.audio, existingFiles.video)
      fxns == PromiseFxnsOfVideos(potential, options.downloadType,
                                  existingFiles.audio, existingFiles.video)
  IN /\ failures' = fails \o durations.failures
     /\ partialVideosWithDurationMetadata' = withDuration
     /\ potentialOnDisk' =
          [i \in 1..Len(potential) |->
             VideoOnDisk(potential[i], existingFiles.audio,
                         existingFiles.video)]
     /\ AwaitDownloads(
          PromiseFxnBatchesReduce(fxns, 0, <<>>,
                                  options.maxConcurrentYtdlpCalls),
          potential, existingThumbnailIdsOnDiskSet)

\* The calls of yt.videos.list of the batch are settled (main.ts:516-549),
\* results[i] being how the i-th settled; the run goes on to write the raw
\* responses, or to the downloads.
VideosListSettled(results, existingFiles, existingThumbnailIdsOnDiskSet) ==
  LET idArrays == IF fetchIdChunks = <<>> THEN <<>> ELSE fetchIdChunks[1]
      settled == SettledVideosList(idArrays, results)
  IN
  /\ pc = "videos.list"
  /\ Len(results) = Len(idArrays)
  /\ videoListResponses' = settled.responses
  /\ IF options.saveRawResponses
       THEN /\ pc' = "youtubeVideoResponses.json"
            /\ failures' = failures \o settled.failures
            /\ UNCHANGED <<partialVideosWithDurationMetadata,
                           potentialOnDisk, units, wave, freshMetadata,
                           thumbnailsToDownload>>
       ELSE DownloadPotentialVideos(settled.responses,
                                    failures \o settled.failures,
                                    existingFiles,
                                    existingThumbnailIdsOnDiskSet)
  /\ UNCHANGED <<metadataJson, unavailableVideos, step6Vars,
                 youTubeFetchCount, options, downloadCount,
                 playlistItemListResponses, fetchIdChunks,
                 partialVideosMetadata, ytDlpPath, ffmpegPath, part021Vars>>

\* Bun.write of youtubeVideoResponses.json returns or throws
\* (main.ts:551-565).
VideoResponsesWritten(writeOk, existingFiles, existingThumbnailIdsOnDiskSet) ==
  /\ pc = "youtubeVideoResponses.json"
  /\ DownloadPotentialVideos(
       videoListResponses,
       IF writeOk THEN failures
       ELSE Append(failures, BunWriteFailure("youtubeVideoResponses.json")),
       existingFiles, existingThumbnailIdsOnDiskSet)
  /\ UNCHANGED <<metadataJson, unavailableVideos, step6Vars,
                 youTubeFetchCount, options, downloadCount,
                 playlistItemListResponses, fetchIdChunks,
                 videoListResponses, partialVideosMetadata, ytDlpPath,
                 ffmpegPath, part021Vars>>

\* The potential videos of the run: potentialOnDisk without the extensions.
PotentialVideos ==
  [i \in 1..Len(potentialOnDisk) |->
     [f \in (DOMAIN potentialOnDisk[i])
              \ {"audioFileExtension", "videoFileExtension"} |->
        potentialOnDisk[i][f]]]

\* yt-dlp exits for the u-th promise function and the promise of the
\* function settles; when it was the last pending one of its batch the
\* reduce goes on.
YtDlpSettled(u, result, existingThumbnailIdsOnDiskSet) ==
  /\ pc = "yt-dlp"
  /\ u \in 1..Len(units)
  /\ units[u].promise = "pending"
  /\ LET then == PromiseFxnThen(units[u].fxn, units[u].video, result)
         settled == [units EXCEPT ![u].promise = then.promise,
                                  ![u].value = then.value]
     IN /\ failures' = failures \o then.failures
        /\ downloadCount' =
             [downloadCount EXCEPT !.audio = @ + then.audio,
                                   !.video = @ + then.video]
        /\ AwaitDownloads(
             PromiseFxnBatchesReduce(settled, wave, freshMetadata,
                                     options.maxConcurrentYtdlpCalls),
             PotentialVideos, existingThumbnailIdsOnDiskSet)
  /\ UNCHANGED <<metadataJson, potentialOnDisk, unavailableVideos, step6Vars,
                 youTubeFetchCount, options, playlistItemListResponses,
                 fetchIdChunks, videoListResponses, partialVideosMetadata,
                 partialVideosWithDurationMetadata, ytDlpPath, ffmpegPath,
                 part021Vars>>

\* The download of the i-th thumbnail settles (main.ts:1033-1048): its
\* `.then` counts it, or its `.catch` pushes the failure; when it was the
\* last pending one of its batch the next batch is called, or the run goes
\* on to metadata.json.
ThumbnailFileSettled(i, outcome) ==
  /\ pc = "thumbnails"
  /\ i \in 1..Len(thumbnailsToDownload)
  /\ thumbnailsToDownload[i].promise = "pending"
  /\ LET settled ==
           [thumbnailsToDownload EXCEPT
              ![i].promise =
                IF outcome = "fulfilled" THEN "fulfilled" ELSE "rejected"]
     IN /\ thumbnailsToDownload' =
             ThumbnailBatchesReduce(settled, options.maxConcurrentFetchCalls)
        /\ pc' = IF ThumbnailsOver(settled) THEN "metadata.json"
                 ELSE "thumbnails"
  /\ IF outcome = "fulfilled"
       THEN /\ downloadCount' = [downloadCount EXCEPT !.thumbnail = @ + 1]
            /\ UNCHANGED failures
       ELSE /\ failures' =
                 Append(failures,
                        ThumbnailFailure(outcome, thumbnailsToDownload[i]))
            /\ UNCHANGED downloadCount
  /\ UNCHANGED <<metadataJson, freshMetadata, potentialOnDisk,
                 unavailableVideos, step6Vars, youTubeFetchCount, options,
                 playlistItemListResponses, fetchIdChunks,
                 videoListResponses, units, wave, partialVideosMetadata,
                 partialVideosWithDurationMetadata, ytDlpPath, ffmpegPath,
                 part021Vars>>

\* The keys of `failureData` (main.ts:1253-1261).
FailureDataTypes ==
  {"Bun.write", "schemaParse", "videosListApi", "partialVideoNotFound",
   "ytdlpFailure", "thumbnailDownload", "thumbnailUrlNotAvailable"}

\* How the run ends (main.ts:1247-1268): the reduce pushes each failure
\* to the array `failureData` has for its type and the run returns its
\* results; for a failure of another type there is no array, the push
\* throws and the promise of the run is rejected.
RunEnds(fails) ==
  IF \A i \in 1..Len(fails) : fails[i].type \in FailureDataTypes
    THEN "done" ELSE "thrown"

\* `Bun.file(metadataJsonPath).json()` settles (main.ts:1079-1081), with
\* [] when there is no file, and the run reconciles (main.ts:1082-1207);
\* when it updated a record it sorts the records and asks for the file to
\* be written (main.ts:1209-1220).
ReadMetadataJson ==
  LET existing == metadataJson
      r == Reconcile(existing, freshMetadata, potentialOnDisk,
                     unavailableVideos)
      final == r.trace[Len(r.trace)]
  IN
  /\ pc = "metadata.json"
  /\ existingMetadata' = existing
  /\ shouldWriteMetadata' = r.shouldWrite
  /\ IF r.shouldWrite
       THEN /\ totalMetadata' = r.total
            /\ steps' = r.trace
            /\ existingMetadataObj' = final.obj
            /\ metadataItemsUpdated' = final.updated
            /\ pc' = IF MetadataChanged(final.updated) THEN "Bun.write"
                     ELSE RunEnds(failures)
       ELSE /\ pc' = RunEnds(failures)
            /\ UNCHANGED <<totalMetadata, steps, existingMetadataObj,
                           metadataItemsUpdated>>
  /\ UNCHANGED <<metadataJson, written, freshMetadata, potentialOnDisk,
                 unavailableVideos, failures, youTubeFetchCount, options,
                 downloadCount, playlistItemListResponses, fetchIdChunks,
                 videoListResponses, units, wave, partialVideosMetadata,
                 partialVideosWithDurationMetadata, ytDlpPath, ffmpegPath,
                 thumbnailsToDownload, part021Vars>>

\* Bun.write of metadata.json returns, the file having the sorted records
\* of the run, or throws (main.ts:1216-1237).
WriteMetadataJson(writeOk) ==
  /\ pc = "Bun.write"
  /\ IF writeOk
       THEN /\ metadataJson' = SortedMetadata(existingMetadataObj)
            /\ written' = TRUE
            /\ UNCHANGED failures
       ELSE /\ failures' =
                 Append(failures,
                        BunWriteFailure(Directory \o "/metadata.json"))
            /\ UNCHANGED <<metadataJson, written>>
  /\ pc' = RunEnds(failures')
  /\ UNCHANGED <<freshMetadata, potentialOnDisk, unavailableVideos,
                 existingMetadata, totalMetadata, steps, existingMetadataObj,
                 metadataItemsUpdated, shouldWriteMetadata,
                 youTubeFetchCount, options, downloadCount,
                 playlistItemListResponses, fetchIdChunks,
                 videoListResponses, units, wave, partialVideosMetadata,
                 partialVideosWithDurationMetadata, ytDlpPath, ffmpegPath,
                 thumbnailsToDownload, part021Vars>>

\* What another call of downloadYouTubePlaylist for the same directory
\* writes, when it read metadata.json as this call read it and downloaded
\* `video` (main.ts:1079-1220).
MetadataOfOtherCall(existing, video) ==
  LET r == Reconcile(existing, <<video>>, <<>>, <<>>)
  IN SortedMetadata(r.trace[Len(r.trace)].obj)

\* Between the read and the write of this call, the write of another call
\* that read the same content.  Nothing orders the two calls: each has left
\* the file to the other at its awaits of main.ts:1079 and 1217.
OtherCallWritesMetadataJson(video) ==
  /\ pc = "Bun.write"
  /\ metadataJson = existingMetadata
  /\ metadataJson' = MetadataOfOtherCall(existingMetadata, video)
  /\ metadataJson' # metadataJson
  /\ UNCHANGED <<pc, freshMetadata, potentialOnDisk, unavailableVideos,
                 step6Vars, failures, youTubeFetchCount, options,
                 downloadCount, playlistItemListResponses, fetchIdChunks,
                 videoListResponses, units, wave, partialVideosMetadata,
                 partialVideosWithDurationMetadata, ytDlpPath, ffmpegPath,
                 thumbnailsToDownload, part021Vars>>

\* The run is over: it has returned its results (main.ts:1264-1268), its
\* promise is rejected, or the process has exited.  The next call starts
\* with new locals.
Return ==
  /\ pc \in {"done", "thrown", "exit"}
  /\ pc' = "idle"
  /\ freshMetadata' = <<>>
  /\ potentialOnDisk' = <<>>
  /\ unavailableVideos' = <<>>
  /\ existingMetadata' = <<>>
  /\ totalMetadata' = <<>>
  /\ steps' = <<>>
  /\ existingMetadataObj' = <<>>
  /\ metadataItemsUpdated' = 0
  /\ shouldWriteMetadata' = FALSE
  /\ written' = FALSE
  /\ failures' = <<>>
  /\ youTubeFetchCount' = 0
  /\ options' = <<>>
  /\ downloadCount' = [video |-> 0, audio |-> 0, thumbnail |-> 0]
  /\ playlistItemListResponses' = <<>>
  /\ fetchIdChunks' = <<>>
  /\ videoListResponses' = <<>>
  /\ units' = <<>>
  /\ wave' = 0
  /\ partialVideosMetadata' = <<>>
  /\ partialVideosWithDurationMetadata' = <<>>
  /\ ytDlpPath' = "null"
  /\ ffmpegPath' = "null"
  /\ thumbnailsToDownload' = <<>>
  /\ UNCHANGED <<metadataJson, part021Vars>>

(***************************************************************************)
(* The runs of one playlist directory, one after the other, each with the  *)
(* default options but for downloadType and one download at a time.  The   *)
(* items of a playlist are of two videos, "a" and "b", added at the same   *)
(* date; "a" can be private, and its item is then of a later date.  Every  *)
(* video lasts 3 min 32 s.  The files a run would download are on disk for *)
(* all the videos or for none.                                             *)
(***************************************************************************)
\* The download types of the runs.
RunDownloadTypes == {"audio", "video"}

\* The items of the playlists.
PlaylistItems ==
  {AvailableItem("a", "1970-01-10T00:00:00Z"),
   PrivateItem("a", "1970-01-20T00:00:00Z"),
   AvailableItem("b", "1970-01-10T00:00:00Z")}

\* The response of yt.videos.list to a call for `ids`: an item for each,
\* with the duration `duration`.
VideosListFulfilled(ids, duration) ==
  [items |-> [i \in 1..Len(ids) |-> VideosListItem(ids[i], duration)],
   status |-> "fulfilled"]

\* The results of the calls of yt.videos.list in flight, all fulfilled.
VideosListResults(duration) ==
  IF fetchIdChunks = <<>> THEN <<>>
  ELSE [i \in 1..Len(fetchIdChunks[1]) |->
          VideosListFulfilled(fetchIdChunks[1][i], duration)]

\* No file is on disk.
NoFiles == [video |-> {}, audio |-> {}]

\* The files of the download type are on disk, for every video.
FilesOfType(downloadType) ==
  [video |-> IF downloadType = "video" THEN Ids ELSE {},
   audio |-> IF downloadType = "audio" THEN Ids ELSE {}]

\* The files on disk when a run looks for them: none, or those of its
\* download type.
FilesOnDisk ==
  IF pc = "videos.list" THEN {NoFiles, FilesOfType(options.downloadType)}
  ELSE {}


\* The items yt.playlistItems.list can answer with.
Playlists == SeqsUpTo(PlaylistItems, MaxItems)

\* The items of the playlist when a run has asked for them.
ItemsOfPlaylist == IF pc = "playlistItems.list" THEN Playlists ELSE {}

\* The download types of a call, when no run is under way.
DownloadTypesOfCall == IF pc = "idle" THEN RunDownloadTypes ELSE {}

\* What the other call downloaded: the audio of "b", which it found added
\* to the playlist at a later date.
VideosOfOtherCall ==
  {DownloadedVideo(PartialVideo(AvailableItem(id, "1970-01-20T00:00:00Z")),
                   212, <<"mp3", null>>) : id \in {"b"}}

Next ==
  \/ \E downloadType \in DownloadTypesOfCall, ytDlp \in YtDlpPaths,
        ffmpeg \in FfmpegPaths, directoryExists \in BOOLEAN :
       CallDownloadYouTubePlaylist(
         Options(downloadType, Infinity, FALSE, FALSE, 1),
         ytDlp, ffmpeg, directoryExists)
  \/ \E items \in ItemsOfPlaylist : PlaylistItemsFulfilled(items)
  \/ PlaylistItemsRejected
  \/ \E existingFiles \in FilesOnDisk :
       VideosListSettled(VideosListResults("PT3M32S"), existingFiles, {})
  \/ \E u \in DOMAIN units, result \in DownloadResults :
       YtDlpSettled(u, result, {})
  \/ ReadMetadataJson
  \/ \E writeOk \in BOOLEAN : WriteMetadataJson(writeOk)
  \/ \E video \in VideosOfOtherCall : OtherCallWritesMetadataJson(video)
  \/ Return

Spec == Init /\ [][Next]_vars

(***************************************************************************)
(* The runs of a directory that has no metadata.json, with a ceiling on    *)
(* the durations, every download type but "video", the thumbnails and the  *)
(* raw responses.  The items of a playlist are of the videos "a" and "b",  *)
(* each added at its date; "a" can be private, and an item of "b" can lack *)
(* its description.  A video lasts 3 min 32 s or 1 h 6 min 40 s.           *)
(***************************************************************************)
\* `maxDurationSeconds`: a ceiling of ten minutes, or the default.
MaxDurationSecondsChoices == {Finite(600), Infinity}

\* The options of the runs.
FilterOptions ==
  {Options("audio", maxDurationSeconds, FALSE, FALSE, 10) :
     maxDurationSeconds \in MaxDurationSecondsChoices}
  \cup {Options("both", Infinity, FALSE, FALSE, 10),
        Options("none", Finite(600), TRUE, TRUE, 10)}

\* snippet.publishedAt of the item of a video.
DateAddedOf(id) ==
  IF id = "a" THEN "1970-01-10T00:00:00Z" ELSE "1970-01-20T00:00:00Z"

\* The items of the playlists.
FilterPlaylistItems ==
  {AvailableItem(id, DateAddedOf(id)) : id \in Ids}
  \cup {PrivateItem("a", DateAddedOf("a")),
        ItemWithoutDescription("b", DateAddedOf("b"))}

\* How a call of yt.videos.list for `ids` settles: fulfilled with an item
\* for each id, all of the same duration; with an item that has no
\* contentDetails for the first id; with one item more, of a video that is
\* not of the playlist; or rejected.
VideosListSettlements(ids) ==
  {VideosListFulfilled(ids, duration) : duration \in VideoDurations}
  \cup {[items |-> <<VideosListItemWithoutDetails(ids[1])>>
                     \o Tail(VideosListFulfilled(ids, "PT3M32S").items),
         status |-> "fulfilled"],
        [items |-> Append(VideosListFulfilled(ids, "PT3M32S").items,
                          VideosListItem("z", "PT3M32S")),
         status |-> "fulfilled"],
        [status |-> "rejected"]}

\* The results of the calls of yt.videos.list in flight.
FilterVideosListResults ==
  IF fetchIdChunks = <<>> THEN {<<>>}
  ELSE {<<settlement>> : settlement \in VideosListSettlements(fetchIdChunks[1][1])}

\* The ids of the videos that have a file in the audio directory and in
\* the video directory: none; "a" in both; "a" in the audio directory.
ExistingFiles ==
  {NoFiles, [video |-> {"a"}, audio |-> {"a"}], [video |-> {}, audio |-> {"a"}]}

\* The ids of the thumbnails on disk.
ExistingThumbnails == {{}, {"a"}}

\* The items yt.playlistItems.list can answer with.
FilterPlaylists == SeqsUpTo(FilterPlaylistItems, MaxItems)

\* The items of the playlist when a run has asked for them.
ItemsOfFilterPlaylist ==
  IF pc = "playlistItems.list" THEN FilterPlaylists ELSE {}

FilterNext ==
  \/ /\ metadataJson = <<>>
     /\ \E opts \in FilterOptions :
          CallDownloadYouTubePlaylist(opts, "/usr/local/bin/yt-dlp",
                                      "/usr/local/bin/ffmpeg", TRUE)
  \/ \E items \in ItemsOfFilterPlaylist : PlaylistItemsFulfilled(items)
  \/ \E writeOk \in BOOLEAN : PlaylistResponsesWritten(writeOk)
  \/ \E results \in FilterVideosListResults, existingFiles \in ExistingFiles,
        existingThumbnailIds \in ExistingThumbnails :
       VideosListSettled(results, existingFiles, existingThumbnailIds)
  \/ \E writeOk \in BOOLEAN, existingFiles \in ExistingFiles,
        existingThumbnailIds \in ExistingThumbnails :
       VideoResponsesWritten(writeOk, existingFiles, existingThumbnailIds)
  \/ \E u \in DOMAIN units, result \in DownloadResults,
        existingThumbnailIds \in ExistingThumbnails :
       YtDlpSettled(u, result, existingThumbnailIds)
  \/ \E i \in DOMAIN thumbnailsToDownload, outcome \in ThumbnailOutcomes :
       ThumbnailFileSettled(i, outcome)
  \/ ReadMetadataJson
  \/ \E writeOk \in BOOLEAN : WriteMetadataJson(writeOk)
  \/ Return

FilterSpec == Init /\ [][FilterNext]_vars

\* The video is available and longer than the ceiling of the run.
OverCeiling(video) ==
  /\ ~video.isUnavailable
  /\ ~WithinMaxDuration(video.durationInSeconds, options.maxDurationSeconds)

\* C29 as stated: a video that is not downloaded because it is longer than
\* the ceiling has a record in metadata.json after the run.
C29_Original ==
  pc = "done" =>
    \A i \in 1..Len(partialVideosWithDurationMetadata) :
      OverCeiling(partialVideosWithDurationMetadata[i]) =>
        HasId(metadataJson, partialVideosWithDurationMetadata[i].id)


\* The events of one kind in a log of requests and answers.
EventsOf(log, event) == SelectSeq(log, LAMBDA entry : entry.event = event)

\* C31 as stated: getIdsForDownload is invoked after the playlist requests
\* are over and before any request of yt.videos.list is issued.  The step
\* that leaves "durationsObj" is the one that calls the function, unless
\* nothing is to be downloaded.
C31_Original ==
  [][(/\ pc = "durationsObj"
      /\ pc' # "durationsObj"
      /\ options.downloadType # "none")
       => /\ EventsOf(playlistItemsApi, "request") # <<>>
          /\ EventsOf(videosListApi, "request") = <<>>]_vars

\* C35 as stated: the youTubeFetchCount of the result is the number of the
\* requests sent to the YouTube API in the run, those of playlistItems.list
\* and those of videos.list together.
C35_Original ==
  Returned =>
    youTubeFetchCount =
      Len(EventsOf(playlistItemsApi, "request"))
        + Len(EventsOf(videosListApi, "request"))


\* No duration of the video was obtained: no answer of yt.videos.list has
\* an item for it.
NeverObtained(video) == video.id \notin DurationIds(videoListResponses)

\* The video is among the ids offered to getIdsForDownload.
Offered(video) ==
  \E k \in 1..Len(PotentialIds(partialVideosWithDurationMetadata,
                               options.maxDurationSeconds)) :
    PotentialIds(partialVideosWithDurationMetadata,
                 options.maxDurationSeconds)[k] = video.id

\* C32 as stated: a video whose duration was never obtained does not have
\* the duration zero and, under a finite ceiling, is not offered as one
\* whose duration satisfies the ceiling.
C32_Original ==
  \A i \in 1..Len(partialVideosWithDurationMetadata) :
    NeverObtained(partialVideosWithDurationMetadata[i]) =>
      /\ partialVideosWithDurationMetadata[i].durationInSeconds # 0
      /\ options.maxDurationSeconds.finite =>
           ~Offered(partialVideosWithDurationMetadata[i])

\* C32, corrected: a duration that is empty, missing or never obtained is
\* the number zero: the empty string parses to 0, a video without an
\* answer has durationInSeconds 0, and every available video with the
\* duration 0 is offered for download under every ceiling.
C32_UnknownDurationIsZero ==
  /\ ParseISO8601DurationToSeconds("") = 0
  /\ \A i \in 1..Len(partialVideosWithDurationMetadata) :
       LET video == partialVideosWithDurationMetadata[i]
       IN /\ NeverObtained(video) => video.durationInSeconds = 0
          /\ video.durationInSeconds = 0 /\ ~video.isUnavailable =>
               Offered(video)

\* Under a ceiling of one second the provider answered with an empty
\* duration for the only video, which parsed without failure, counted as 0
\* seconds, and was downloaded.
C32_Witness ==
  /\ Returned
  /\ options.maxDurationSeconds = Finite(1)
  /\ Len(partialVideosWithDurationMetadata) = 1
  /\ ~NeverObtained(partialVideosWithDurationMetadata[1])
  /\ partialVideosWithDurationMetadata[1].durationInSeconds = 0
  /\ FailuresOfType("schemaParse") = <<>>
  /\ IdSeq(videosDownloaded) = <<1>>

\* Under a ceiling of one second the request for the details failed, the
\* only video counted as 0 seconds, and was downloaded.
C32_WitnessNeverObtained ==
  /\ Returned
  /\ options.maxDurationSeconds = Finite(1)
  /\ Len(partialVideosWithDurationMetadata) = 1
  /\ NeverObtained(partialVideosWithDurationMetadata[1])
  /\ FailuresOfType("videosListApi") # <<>>
  /\ IdSeq(videosDownloaded) = <<1>>


\* The titles and the descriptions by which the provider marks a video
\* that is private or deleted.
SentinelTitles == {"Private video", "Deleted video"}

SentinelDescriptions == {"This video is private.", "This video is unavailable."}

\* C33 as stated: an item is classified unavailable exactly when its title
\* or its description is one of the sentinel strings.
C33_Original ==
  \A i \in 1..Len(partialVideosMetadata) :
    partialVideosMetadata[i].isUnavailable <=>
      \/ partialVideosMetadata[i].title \in SentinelTitles
      \/ partialVideosMetadata[i].description \in SentinelDescriptions

\* C33, corrected: an item is classified unavailable exactly when its title
\* is 'Private video' or 'Deleted video', whatever its description says.
C33_UnavailableByTitleOnly ==
  \A i \in 1..Len(partialVideosMetadata) :
    partialVideosMetadata[i].isUnavailable <=>
      partialVideosMetadata[i].title \in SentinelTitles

\* The only item of the playlist had an ordinary title and the description
\* 'This video is unavailable.': it was classified available, its details
\* were requested and it was downloaded.
C33_Witness ==
  /\ Returned
  /\ Len(partialVideosMetadata) = 1
  /\ partialVideosMetadata[1].title \notin SentinelTitles
  /\ partialVideosMetadata[1].description = "This video is unavailable."
  /\ ~partialVideosMetadata[1].isUnavailable
  /\ EventsOf(videosListApi, "request") # <<>>
  /\ IdSeq(videosDownloaded) = <<1>>


\* The number of units whose yt-dlp exited with code 0: those that returned
\* a video and those whose handler failed after the exit code was read.
ExitedWithZero ==
  Cardinality(UnitsEnding("video") \cup UnitsEnding("generic")
                \cup UnitsEnding("schemaParse"))

\* The count a download type asks for: n for the types that download the
\* kind of file, and 0 for the others.
CountFor(types, n) == IF options.downloadType \in types THEN n ELSE 0

\* C34 as stated: when the run returns, downloadCount.audio (for the types
\* audio and both) and downloadCount.video (for the types video and both)
\* are the number of records in videosDownloaded.
C34_Original ==
  Downloaded =>
    /\ downloadCount.audio =
         CountFor({"audio", "both"}, Len(videosDownloaded))
    /\ downloadCount.video =
         CountFor({"video", "both"}, Len(videosDownloaded))

\* The units whose handler failed after yt-dlp exited with code 0 and the
\* counts were incremented: the stdout was no JSON or failed
\* YtDlpJsonSchema, or the audio file could not be moved.
FailedAfterCount == UnitsEnding("generic") \cup UnitsEnding("schemaParse")

\* C34, corrected: when the run returns, downloadCount.audio (for the types
\* audio and both) and downloadCount.video (for the types video and both)
\* are the number of units whose yt-dlp exited with code 0: the number of
\* records in videosDownloaded plus the number of units whose handler
\* failed after the counts were incremented.  A count is never smaller than
\* the number of records, it is that number exactly when no unit failed
\* after exit code 0, and a unit whose promise of the shell was rejected or
\* whose yt-dlp exited with an error is not counted.
C34_CountsAreToolSuccesses ==
  Downloaded =>
    /\ downloadCount.audio = CountFor({"audio", "both"}, ExitedWithZero)
    /\ downloadCount.video = CountFor({"video", "both"}, ExitedWithZero)
    /\ ExitedWithZero = Len(videosDownloaded) + Cardinality(FailedAfterCount)
    /\ ExitedWithZero + Cardinality(UnitsEnding("shellRejects")
                                      \cup UnitsEnding("ytdlpFailure")
                                      \cup UnitsEnding("partialVideoNotFound"))
         = Len(units)

\* A run for both kinds of file returned no video of two units, and both
\* counts are 1: the output of the first unit passed the schema and its
\* audio file could not be moved, and the promise of the shell of the
\* second was rejected.
C34_Witness ==
  /\ Downloaded
  /\ options.downloadType = "both"
  /\ Len(units) = 2
  /\ units[1].ytdlp = "generic"
  /\ units[2].ytdlp = "shellRejects"
  /\ \E i \in 1..Len(failures) :
       failures[i] = GenericUnitFailure(units[1].id, "fs.renameSync")
  /\ videosDownloaded = <<>>
  /\ downloadCount.audio = 1
  /\ downloadCount.video = 1


(***************************************************************************)
(* The thumbnail cascade without a bound on the redirects.  The provider   *)
(* may answer every request with a 3xx status; the log of the requests is  *)
(* not continued, so that a run in which the same calls of                 *)
(* _downloadThumbnailFile repeat is a cycle of states.  Every request is   *)
(* answered or fails in the end, and every handler runs: the steps of the  *)
(* cascade are weakly fair.                                                *)
(***************************************************************************)

\* The provider answers the request in flight (part_017:795-846).  fetch
\* follows redirects, so that res.url, the last url asked, can be any url.
FetchAnswered(res) ==
  /\ pc = "fetch"
  /\ res.status \in Statuses
  /\ LET then == DownloadThumbnailThen(thumbnailCall, res)
         step == DownloadThumbnailStep(thumbnailCall, res)
     IN CASE step.status = "pending" ->
               /\ thumbnailCall' = step.call
               /\ UNCHANGED <<pc, thumbnailFetches, thumbnailFile,
                              downloadCount, failures>>
          [] step.status = "Bun.write" ->
               /\ thumbnailFetches' = <<res>>
               /\ pc' = "Bun.write"
               /\ UNCHANGED <<thumbnailCall, thumbnailFile, downloadCount,
                              failures>>
          [] step.status = "rejected" ->
               /\ thumbnailCall' =
                    IF then.status = "pending" THEN then.call ELSE thumbnailCall
               /\ AwaitDownloadThumbnailFile(step)
               /\ pc' = "thumbnailSettled"
               /\ UNCHANGED thumbnailFetches
  /\ UNCHANGED notThumbnailVars

RedirectNext ==
  \/ DownloadThumbnailFile
  \/ \E status \in Statuses, resUrl \in {RedirectedUrl} \cup (1..MaxUrls) :
       FetchAnswered([url |-> resUrl, event |-> "response",
                      status |-> status, body |-> resUrl])
  \/ \E writeOk \in BOOLEAN : ThumbnailWritten(writeOk)
  \/ FetchRejected

RedirectSpec == Init /\ [][RedirectNext]_vars /\ WF_vars(RedirectNext)

\* C36 as stated: every thumbnail attempt ends, with a written file or with
\* a recorded failure, whatever the provider answers, repeated 3xx
\* responses included.
C36_Original ==
  (pc = "fetch") ~>
    (ThumbnailSettled /\ (thumbnailFile # <<>> \/ failures # <<>>))


(***************************************************************************)
(* The paginator before a provider that answers a request with any number  *)
(* of items and with any continuation token or none, a token it gave       *)
(* before included.  youTubeFetchCount and the pages handed to the         *)
(* recursive call grow with every answered request (part_021:870-885), so  *)
(* no run comes back to a state it was in; the provider of the model       *)
(* answers MaxPages requests of a run at most, the last of them without a  *)
(* token.                                                                  *)
(***************************************************************************)

\* What the provider gives as nextPageToken: no token, or one of its
\* tokens.
NextPageTokens == {NoPageToken} \cup (1..MaxPages)

\* The provider answers the request in flight with a page of `items` items
\* and with nextPageToken (part_021:863-889): youTubeFetchCount is
\* incremented, and the call makes the recursive call with the pages
\* gathered, which sends the next request, or its promise is fulfilled
\* with them.
PlaylistItemsListAnswered(items, nextPageToken) ==
  /\ pc = "playlistItems.list"
  /\ nextPageToken # NoPageToken =>
       Len(playlistItemsCall.responses) + 1 < MaxPages
  /\ LET page == PlaylistItemListResponse(playlistItemsCall.pageToken,
                                          items, FALSE)
         response == [page EXCEPT !.nextPageToken = nextPageToken]
         result == GenPlaylistItemsFulfilled(playlistItemsCall, response)
     IN /\ youTubeFetchCount' = youTubeFetchCount + 1
        /\ IF result.status = "pending"
             THEN /\ playlistItemsCall' = result.call
                  /\ playlistItemsApi' =
                       playlistItemsApi \o <<response, ListRequest(result.call)>>
                  /\ UNCHANGED <<pc, playlistItemListResponses, failures>>
             ELSE /\ playlistItemsApi' = Append(playlistItemsApi, response)
                  /\ AwaitGenPlaylistItems(result)
                  /\ pc' = "partialVideosMetadata"
                  /\ UNCHANGED playlistItemsCall
  /\ UNCHANGED notPlaylistVars

PaginatorNext ==
  \/ GenPlaylistItems
  \/ \E items \in PageSizes, nextPageToken \in NextPageTokens :
       PlaylistItemsListAnswered(items, nextPageToken)
  \/ PlaylistItemsListRejected

PaginatorSpec == Init /\ [][PaginatorNext]_vars

\* The run has a finite cap on the items of the playlist.
FiniteItemCap ==
  /\ playlistItemsCall # <<>>
  /\ playlistItemsCall.totalItemsToFetch.finite

\* The requests at positions i and j of the log are of calls of
\* _genPlaylistItems with the same pageToken and the same itemsFetchedCount:
\* the later call differs from the earlier one by the pages gathered alone.
SameCall(api, i, j) ==
  /\ api[i].event = "request"
  /\ api[j].event = "request"
  /\ api[i].pageToken = api[j].pageToken
  /\ ItemsBefore(api, i) = ItemsBefore(api, j)

\* C37 as stated: with a finite cap the paginator sends finitely many page
\* requests, whatever numbers of items and continuation tokens the provider
\* returns.  A call of _genPlaylistItems that has the pageToken and the
\* itemsFetchedCount of an earlier call of the run sends the request of the
\* earlier call, and a provider that answers it as before has the call made
\* once more, without end; so no two calls of a run under a finite cap may
\* agree in the two.
C37_Original ==
  FiniteItemCap =>
    \A i, j \in 1..Len(playlistItemsApi) :
      i < j => ~SameCall(playlistItemsApi, i, j)


\* C38 as stated: no two units of work for the same video id are in flight
\* at the same time, even when an id was selected more than once.
C38_Original ==
  \A u, v \in 1..Len(units) :
    (u # v /\ InFlight(units[u]) /\ InFlight(units[v])) =>
      units[u].id # units[v].id


\* The failures the units of work push for themselves: an id without a
\* video, a yt-dlp that exited with an error, and output that did not
\* parse.
UnitFailures ==
  SelectSeq(failures,
            LAMBDA f :
              \/ f.type \in {"partialVideoNotFound", "ytdlpFailure",
                             "schemaParse"}
              \/ f.type = "generic" /\ f.context = "downloadPromiseFxns")

\* Unit u did not give a video and a failure of its outcome is recorded.
Traced(u) ==
  IF units[u].ytdlp = "partialVideoNotFound"
    THEN \E i \in 1..Len(failures) :
           failures[i] = [id |-> units[u].id, type |-> "partialVideoNotFound"]
    ELSE ToolOrParseFailed(units[u]) /\ FailureRecorded(u)

\* C39: when the run returns, every id selected for download has a record
\* in videosDownloaded or a failure recorded by its unit, and there are as
\* many units as records and failures of units together.
C39_EverySelectedIdLeavesATrace ==
  Downloaded =>
    /\ \A u \in 1..Len(units) :
         \/ \E i \in 1..Len(videosDownloaded) :
              videosDownloaded[i].id = units[u].id
         \/ Traced(u)
    /\ Len(units) = Len(videosDownloaded) + Len(UnitFailures)

\* Of two units, one had output that failed the schema and one gave a
\* video: one record and one failure.
C39_Witness ==
  /\ Downloaded
  /\ Len(units) = 2
  /\ units[1].ytdlp = "schemaParse"
  /\ units[2].ytdlp = "video"
  /\ IdSeq(videosDownloaded) = <<units[2].id>>
  /\ Len(UnitFailures) = 1

\* The attempt at the thumbnail of unit u ended in a failure that is
\* recorded.
ThumbnailFailed(u) ==
  /\ units[u].thumbnail = "rejected"
  /\ \E i \in 1..Len(failures) :
       failures[i].type \in {"thumbnailUrlNotAvailable", "thumbnailDownload",
                             "Bun.write", "TypeError"}

\* C40: a unit whose attempt at the thumbnail ended in a recorded failure
\* still has yt-dlp started for its id.
C40_ThumbnailFailureDoesNotStopTheUnit ==
  \A u \in 1..Len(units) :
    units[u].thumbnail = "rejected" =>
      ThumbnailFailed(u) /\ ToolInvokedFor(units[u])

\* The attempt at the thumbnail of the only unit of a run failed, and the
\* video of the unit is in videosDownloaded.
C40_Witness ==
  /\ Downloaded
  /\ Len(units) = 1
  /\ ThumbnailFailed(1)
  /\ units[1].ytdlp = "video"
  /\ IdSeq(videosDownloaded) = <<units[1].id>>
  /\ downloadCount.thumbnail = 0

====
